---- MODULE Spec2Model ----
(***************************************************************************)
(* Model of prusti-interface/src/specs/mod.rs: the SpecCollector turns the *)
(* records gathered by the HIR visitor into a DefSpecificationMap          *)
(* (build_def_specs), exports it to a per-crate artifact and imports the   *)
(* artifacts of the dependency crates.                                     *)
(***************************************************************************)
EXTENDS Integers, Sequences, FiniteSets, TLC

(* ------------------------------ bounds --------------------------------- *)
\* longest spec_id_refs vector of a procedure scanner record
MaxRefs == 2

(* ----------------------------- entities -------------------------------- *)
\* the SpecificationIds the scanned *_spec_id_ref tags mention
SpecIds == {1, 2}
\* the id whose spec function may be missing or may carry a ghost constraint
LastSpecId == CHOOSE i \in SpecIds : \A j \in SpecIds : j <= i
\* Option<SpecificationId>::None
NoId == 0
FnNames == <<"f1", "f2", "f3", "f4">>
\* the spec function (LocalDefId) that carries the tag spec_id = i
SpecFnOf(i) == FnNames[i]
SpecFns == {SpecFnOf(i) : i \in SpecIds}
\* ordinary local procedures, local extern-spec stand-ins, foreign items
Procs == {"p1", "p2"}
StandIns == {"s1", "s2"}
\* closures bound by a local statement
Closures == {"k1"}
Foreign == {"x1", "x2"}
LocalTypes == {"t1"}
ForeignTypes == {"u1"}
\* spec functions of the dependency crates
DepSpecFns == {"g1", "g2"}
\* local spec functions that are a type invariant, a loop invariant, an
\* assertion, an assumption, a ghost begin and a ghost end marker, and the
\* SpecificationId each of them carries
MarkerFns == <<"i1", "l1", "a1", "h1", "b1", "e1">>
MarkerSpecFunctions == [i \in {10 + k : k \in DOMAIN MarkerFns} |-> MarkerFns[i - 10]]
LOCAL_CRATE == "local"
DepCrates == {"depA", "depB"}
NoneDef == "None"
NoConstraint == "unconstrained"
Constraints == {"c1"}

(* --------------------------- SpecIdRef --------------------------------- *)
Precondition(i) == [tag |-> "Precondition", lhs |-> NoId, id |-> i]
Postcondition(i) == [tag |-> "Postcondition", lhs |-> NoId, id |-> i]
Pledge(l, r) == [tag |-> "Pledge", lhs |-> l, id |-> r]
Predicate(i) == [tag |-> "Predicate", lhs |-> NoId, id |-> i]
SpecIdRef ==
  {Precondition(i) : i \in SpecIds} \cup {Postcondition(i) : i \in SpecIds}
    \cup {Pledge(l, r) : l \in SpecIds \cup {NoId}, r \in SpecIds}
    \cup {Predicate(i) : i \in SpecIds}

\* position of a reference in the order get_procedure_spec_ids pushes them
RefRank(r) ==
  CASE r.tag = "Precondition" -> 1
    [] r.tag = "Postcondition" -> 2
    [] r.tag = "Pledge" /\ r.lhs = NoId -> 3
    [] r.tag = "Pledge" /\ r.lhs # NoId -> 4
    [] r.tag = "Predicate" -> 5

SeqsUpTo(S, n) == UNION {[1 .. k -> S] : k \in 0 .. n}

\* the spec_id_refs vectors get_procedure_spec_ids can build: preconditions,
\* postconditions, pledges, at most one assert-pledge, at most one predicate
ScannedRefs ==
  {s \in SeqsUpTo(SpecIdRef, MaxRefs) :
     \A a, b \in DOMAIN s :
        a < b => /\ RefRank(s[a]) <= RefRank(s[b])
                 /\ (RefRank(s[a]) >= 4 => RefRank(s[a]) < RefRank(s[b]))}

\* ProcedureSpecRefs as returned by get_procedure_spec_ids (Some(..) case)
ProcedureSpecRefs ==
  {r \in [spec_id_refs : ScannedRefs, pure : BOOLEAN,
          abstract_predicate : BOOLEAN, trusted : BOOLEAN] :
     r.abstract_predicate \/ r.pure \/ r.trusted \/ r.spec_id_refs # <<>>}

(* ------------------------------ state ---------------------------------- *)
VARIABLES
  hir,                     \* the HIR nodes the visitor has not visited yet
  panic,                   \* the panic that ended the process, if any
  substs,                  \* typaram::Substs under test: its inputs and results
  spec_functions,          \* SpecificationId -> spec function
  constraint_of,           \* spec function -> its ghost constraint, if any
  procedure_specs,         \* LocalDefId -> ProcedureSpecRefs
  extern_fn_map,           \* extern declaration (its target) -> stand-in
  loop_specs, type_specs, prusti_assertions, prusti_assumptions,
  ghost_begin, ghost_end,  \* the remaining scanner records
  has_body,                \* entities for which env.query.has_body holds
  enable_ghost_constraints, enable_type_invariants,
  build_output_dir,        \* TRUE for Some(dir)
  crates,                  \* tcx.crates(()) in enumeration order
  fs,                      \* crate -> contents of its serialized_specs file
  exported,                \* crate -> what its run passed to write_into_file
  unreadable,              \* crates whose artifact cannot be opened or read
  def_spec,                \* the DefSpecificationMap being built
  body,                    \* env.body: the loaded bodies and the load calls made
  diagnostic,              \* diagnostics emitted so far
  next_crate,              \* index into crates of the import loop
  pc                       \* position inside build_def_specs

scanned == <<spec_functions, constraint_of, procedure_specs, extern_fn_map,
             loop_specs, type_specs, prusti_assertions, prusti_assumptions,
             ghost_begin, ghost_end, has_body>>
config == <<enable_ghost_constraints, enable_type_invariants,
            build_output_dir, crates, unreadable>>
vars == <<hir, panic, substs, scanned, config, fs, exported, def_spec, body, diagnostic,
          next_crate, pc>>

(* ------------------------------- panics -------------------------------- *)
NoPanic == [msg |-> "none", def |-> NoneDef]
\* the panic of parse_spec_id for the tags of def_id
ParsePanic(def_id) == [msg |-> "cannot parse the spec_id attached to", def |-> def_id]
\* Option::unwrap on None, unreachable!(), Option::expect on None
UnwrapPanic == [msg |-> "called Option::unwrap() on a None value", def |-> NoneDef]
UnreachablePanic == [msg |-> "internal error: entered unreachable code", def |-> NoneDef]
ExpectPanic == [msg |-> "closure on Local without assignment", def |-> NoneDef]

(* ------------------------------ typaram -------------------------------- *)
\* A string is a tuple of characters.  substs holds the arguments of
\* Substs::learn (outer1, outer2) and Substs::apply (inner1), the repls map of
\* the Substs that learn built and the string that apply returned.
NoSubsts == [stage |-> "none", outer1 |-> <<>>, outer2 |-> <<>>, inner1 |-> <<>>,
             repls |-> <<>>, newstr |-> <<>>]

\* the two literal parts of the regex (__TYPARAM__\$(.*?)\$__)
TYPARAM_OPEN == <<"_", "_", "T", "Y", "P", "A", "R", "A", "M", "_", "_", "$">>
TYPARAM_CLOSE == <<"$", "_", "_">>

MinOf(S) == CHOOSE x \in S : \A y \in S : x <= y
StartsWith(text, i, lit) ==
  i + Len(lit) - 1 <= Len(text) /\ SubSeq(text, i, i + Len(lit) - 1) = lit
\* "." matches every character but the line feed
NoNewline(text, a, b) == \A k \in a .. b : text[k] # "\n"

\* where the match of the regex that starts at i stops (exclusive), 0 if the
\* regex does not match at i; (.*?) takes the fewest characters
PlaceholderStop(text, i) ==
  IF ~StartsWith(text, i, TYPARAM_OPEN) THEN 0
  ELSE LET closes == {j \in i + Len(TYPARAM_OPEN) .. Len(text) :
                        /\ StartsWith(text, j, TYPARAM_CLOSE)
                        /\ NoNewline(text, i + Len(TYPARAM_OPEN), j - 1)}
       IN IF closes = {} THEN 0 ELSE MinOf(closes) + Len(TYPARAM_CLOSE)

\* Regex::find_iter: the leftmost non-overlapping matches from pos on
RECURSIVE find_iter(_, _)
find_iter(text, pos) ==
  LET starts == {i \in pos .. Len(text) : PlaceholderStop(text, i) # 0} IN
  IF starts = {} THEN <<>>
  ELSE <<[start |-> MinOf(starts), stop |-> PlaceholderStop(text, MinOf(starts))]>>
         \o find_iter(text, PlaceholderStop(text, MinOf(starts)))

RECURSIVE escape_dollars(_)
escape_dollars(str) ==
  IF str = <<>> THEN <<>>
  ELSE (IF Head(str) = "$" THEN <<"\\", "$">> ELSE <<Head(str)>>) \o escape_dollars(Tail(str))

\* Regex::new on a piece of pattern text: a backslash makes the next character
\* literal, "." stands for any character, every other character of the
\* strings considered here stands for itself
RECURSIVE RegexAtoms(_)
RegexAtoms(pattern) ==
  IF pattern = <<>> THEN <<>>
  ELSE IF Head(pattern) = "\\" /\ Len(pattern) > 1
    THEN <<[any |-> FALSE, ch |-> pattern[2]]>> \o RegexAtoms(Tail(Tail(pattern)))
  ELSE <<[any |-> Head(pattern) = ".", ch |-> Head(pattern)]>> \o RegexAtoms(Tail(pattern))

AtomsAt(text, pos, atoms) ==
  /\ pos + Len(atoms) - 1 <= Len(text)
  /\ \A k \in DOMAIN atoms :
       IF atoms[k].any THEN text[pos + k - 1] # "\n" ELSE text[pos + k - 1] = atoms[k].ch

\* Regex::captures for ^lits[1](.*?)lits[2](.*?)...lits[n]$ from pos on: every
\* group takes the fewest characters that still let the rest match; [ok, caps]
RECURSIVE captures(_, _, _)
captures(lits, text, pos) ==
  LET stop == pos + Len(Head(lits))
      lens == {n \in 0 .. Len(text) + 1 - stop :
                 /\ NoNewline(text, stop, stop + n - 1)
                 /\ captures(Tail(lits), text, stop + n).ok}
  IN IF ~AtomsAt(text, pos, Head(lits)) THEN [ok |-> FALSE, caps |-> <<>>]
     ELSE IF Len(lits) = 1 THEN [ok |-> stop = Len(text) + 1, caps |-> <<>>]
     ELSE IF lens = {} THEN [ok |-> FALSE, caps |-> <<>>]
     ELSE [ok |-> TRUE,
           caps |-> <<SubSeq(text, stop, stop + MinOf(lens) - 1)>>
                      \o captures(Tail(lits), text, stop + MinOf(lens)).caps]

AssertPanic == [msg |-> "assertion failed: to == x", def |-> NoneDef]
IndexPanic == [msg |-> "key not found in HashMap", def |-> NoneDef]

\* the text of from between the matches ms: before the first, between two, after the last
Between(from, ms) ==
  [k \in 1 .. Len(ms) + 1 |->
     SubSeq(from, IF k = 1 THEN 1 ELSE ms[k - 1].stop,
                  IF k > Len(ms) THEN Len(from) ELSE ms[k].start - 1)]

\* Substs::learn: [panic, repls]
learn(from, to) ==
  LET ms == find_iter(from, 1)
      typarams == [k \in DOMAIN ms |-> SubSeq(from, ms[k].start, ms[k].stop - 1)]
      repls_regex == [k \in 1 .. Len(ms) + 1 |-> RegexAtoms(escape_dollars(Between(from, ms)[k]))]
      found == captures(repls_regex, to, 1)
  IN IF ~found.ok THEN [panic |-> UnwrapPanic, repls |-> <<>>]
     ELSE IF \E i, j \in DOMAIN typarams :
               i < j /\ typarams[i] = typarams[j] /\ found.caps[i] # found.caps[j]
       THEN [panic |-> AssertPanic, repls |-> <<>>]
     ELSE [panic |-> NoPanic,
           repls |-> [t \in {typarams[k] : k \in DOMAIN typarams} |->
                        found.caps[CHOOSE k \in DOMAIN typarams : typarams[k] = t]]]

RECURSIVE ApplyFrom(_, _, _, _)
ApplyFrom(repls, inner1, ms, last) ==
  IF ms = <<>> THEN SubSeq(inner1, last, Len(inner1))
  ELSE SubSeq(inner1, last, Head(ms).start - 1)
         \o repls[SubSeq(inner1, Head(ms).start, Head(ms).stop - 1)]
         \o ApplyFrom(repls, inner1, Tail(ms), Head(ms).stop)

\* Substs::apply: [panic, newstr]
apply(repls, inner1) ==
  LET ms == find_iter(inner1, 1) IN
  IF \E k \in DOMAIN ms : SubSeq(inner1, ms[k].start, ms[k].stop - 1) \notin DOMAIN repls
    THEN [panic |-> IndexPanic, newstr |-> <<>>]
    ELSE [panic |-> NoPanic, newstr |-> ApplyFrom(repls, inner1, ms, 1)]

Substs_learn ==
  /\ pc = "typaram" /\ substs.stage = "args"
  /\ LET r == learn(substs.outer1, substs.outer2) IN
       /\ substs' = [substs EXCEPT !.stage = IF r.panic = NoPanic THEN "learned" ELSE "panicked",
                                   !.repls = r.repls]
       /\ panic' = r.panic
  /\ UNCHANGED <<hir, scanned, config, fs, exported, def_spec, body, diagnostic, next_crate, pc>>

Substs_apply ==
  /\ pc = "typaram" /\ substs.stage = "learned"
  /\ LET r == apply(substs.repls, substs.inner1) IN
       /\ substs' = [substs EXCEPT !.stage = IF r.panic = NoPanic THEN "applied" ELSE "panicked",
                                   !.newstr = r.newstr]
       /\ panic' = r.panic
  /\ UNCHANGED <<hir, scanned, config, fs, exported, def_spec, body, diagnostic, next_crate, pc>>

(* ------------------------- attributes of a HIR node -------------------- *)
\* the text of a tag is a tuple of characters; Option<String> is a tuple of
\* at most one text, Vec<String> a tuple of texts
Digits == <<"0", "1", "2", "3", "4", "5", "6", "7", "8", "9">>
IsDigit(c) == \E i \in DOMAIN Digits : Digits[i] = c
DigitValue(c) == (CHOOSE i \in DOMAIN Digits : Digits[i] = c) - 1
\* SpecificationId::try_from(String) succeeds on a well-formed text
WellFormed(raw) == raw # <<>> /\ \A i \in DOMAIN raw : IsDigit(raw[i])
RECURSIVE SpecificationId_try_from(_)
SpecificationId_try_from(raw) ==
  IF raw = <<>> THEN 0
  ELSE 10 * SpecificationId_try_from(SubSeq(raw, 1, Len(raw) - 1)) + DigitValue(raw[Len(raw)])

\* variant of parse_spec_id that carries on after a malformed text
parse_spec_id_Lenient(raw, def_id) ==
  IF WellFormed(raw) THEN [panic |-> NoPanic, id |-> SpecificationId_try_from(raw)]
  ELSE [panic |-> NoPanic, id |-> NoId]

\* parse_spec_id: [panic, id]
parse_spec_id(raw, def_id) ==
  IF WellFormed(raw) THEN [panic |-> NoPanic, id |-> SpecificationId_try_from(raw)]
  ELSE [panic |-> ParsePanic(def_id), id |-> NoId]

has_prusti_attr(attrs, name) == name \in attrs.flags

\* the first panic, if any, of parsing the texts of raws in order
RECURSIVE FirstPanic(_, _)
FirstPanic(raws, def_id) ==
  IF raws = <<>> THEN NoPanic
  ELSE IF parse_spec_id(Head(raws), def_id).panic # NoPanic
    THEN parse_spec_id(Head(raws), def_id).panic
  ELSE FirstPanic(Tail(raws), def_id)

\* variant of AssertPledge with the two sides of the pair exchanged
AssertPledge_SwapsSides(attrs, def_id) ==
  IF attrs.assert_lhs # <<>> /\ attrs.assert_rhs # <<>>
    THEN <<Pledge(parse_spec_id(attrs.assert_rhs[1], def_id).id,
                  parse_spec_id(attrs.assert_lhs[1], def_id).id)>>
    ELSE <<>>

\* the assert-pledge pair: <<>> for (None, None), one reference for
\* (Some, Some); any other combination is unreachable!()
AssertPledge(attrs, def_id) ==
  IF attrs.assert_lhs # <<>> /\ attrs.assert_rhs # <<>>
    THEN <<Pledge(parse_spec_id(attrs.assert_lhs[1], def_id).id,
                  parse_spec_id(attrs.assert_rhs[1], def_id).id)>>
    ELSE <<>>

\* get_procedure_spec_ids: [panic, refs], refs being <<>> for None and
\* <<record>> for Some(record)
get_procedure_spec_ids(def_id, attrs) ==
  LET first == FirstPanic(attrs.pre \o attrs.post \o attrs.pledge, def_id)
      pair == FirstPanic(attrs.assert_lhs \o attrs.assert_rhs, def_id)
      last == FirstPanic(attrs.pred, def_id)
      spec_id_refs ==
        [i \in DOMAIN attrs.pre |-> Precondition(parse_spec_id(attrs.pre[i], def_id).id)]
          \o [i \in DOMAIN attrs.post |-> Postcondition(parse_spec_id(attrs.post[i], def_id).id)]
          \o [i \in DOMAIN attrs.pledge |-> Pledge(NoId, parse_spec_id(attrs.pledge[i], def_id).id)]
          \o AssertPledge(attrs, def_id)
          \o [i \in DOMAIN attrs.pred |-> Predicate(parse_spec_id(attrs.pred[i], def_id).id)]
      pure == has_prusti_attr(attrs, "pure")
      trusted == has_prusti_attr(attrs, "trusted")
      abstract_predicate == has_prusti_attr(attrs, "abstract_predicate")
  IN IF first # NoPanic THEN [panic |-> first, refs |-> <<>>]
     ELSE IF (attrs.assert_lhs = <<>>) # (attrs.assert_rhs = <<>>)
       THEN [panic |-> UnreachablePanic, refs |-> <<>>]
     ELSE IF pair # NoPanic THEN [panic |-> pair, refs |-> <<>>]
     ELSE IF last # NoPanic THEN [panic |-> last, refs |-> <<>>]
     ELSE [panic |-> NoPanic,
           refs |-> IF abstract_predicate \/ pure \/ trusted \/ spec_id_refs # <<>>
                      THEN <<[spec_id_refs |-> spec_id_refs, pure |-> pure,
                              abstract_predicate |-> abstract_predicate, trusted |-> trusted]>>
                      ELSE <<>>]

(* ---------------------- typed::SpecGraph and friends ------------------- *)
Impure == [tag |-> "Impure", body |-> NoneDef]
Pure == [tag |-> "Pure", body |-> NoneDef]
PredicateKind(b) == [tag |-> "Predicate", body |-> b]

ProcedureSpecification_empty(source) ==
  [source |-> source, kind |-> Impure, pres |-> <<>>, posts |-> <<>>,
   pledges |-> <<>>, trusted |-> FALSE]

SpecGraph_new(base) == [base_spec |-> base, specs_with_constraints |-> <<>>]

EmptyMap == <<>>
MapPut(m, k, v) == [x \in DOMAIN m \cup {k} |-> IF x = k THEN v ELSE m[x]]
MapRemove(m, k) == [x \in DOMAIN m \ {k} |-> m[x]]
\* HashMap::extend: the entries of n replace those of m
MapExtend(m, n) == [x \in DOMAIN m \cup DOMAIN n |-> IF x \in DOMAIN n THEN n[x] ELSE m[x]]

\* typed::DefSpecificationMap::new()
EmptyDefSpec ==
  [proc_specs |-> EmptyMap, type_specs |-> EmptyMap, loop_specs |-> EmptyMap,
   prusti_assertions |-> EmptyMap, prusti_assumptions |-> EmptyMap,
   ghost_begin |-> EmptyMap, ghost_end |-> EmptyMap]

\* the constrained variant for constraint c, cloned from the base on first use
get_constrained_spec(spec, c) ==
  IF c \in DOMAIN spec.specs_with_constraints
    THEN spec.specs_with_constraints[c]
    ELSE spec.base_spec

add_precondition(spec, pre) ==
  LET c == constraint_of[pre] IN
  IF c = NoConstraint
    THEN [base_spec |-> [spec.base_spec EXCEPT !.pres = Append(@, pre)],
          specs_with_constraints |->
            [k \in DOMAIN spec.specs_with_constraints |->
               [spec.specs_with_constraints[k] EXCEPT !.pres = Append(@, pre)]]]
    ELSE [spec EXCEPT !.specs_with_constraints =
            MapPut(@, c, [get_constrained_spec(spec, c) EXCEPT !.pres = Append(@, pre)])]

add_postcondition(spec, post) ==
  LET c == constraint_of[post] IN
  IF c = NoConstraint
    THEN [base_spec |-> [spec.base_spec EXCEPT !.posts = Append(@, post)],
          specs_with_constraints |->
            [k \in DOMAIN spec.specs_with_constraints |->
               [spec.specs_with_constraints[k] EXCEPT !.posts = Append(@, post)]]]
    ELSE [spec EXCEPT !.specs_with_constraints =
            MapPut(@, c, [get_constrained_spec(spec, c) EXCEPT !.posts = Append(@, post)])]

add_pledge(spec, pledge) ==
  [base_spec |-> [spec.base_spec EXCEPT !.pledges = Append(@, pledge)],
   specs_with_constraints |->
     [k \in DOMAIN spec.specs_with_constraints |->
        [spec.specs_with_constraints[k] EXCEPT !.pledges = Append(@, pledge)]]]

set_trusted(spec, t) ==
  [base_spec |-> [spec.base_spec EXCEPT !.trusted = t],
   specs_with_constraints |->
     [k \in DOMAIN spec.specs_with_constraints |->
        [spec.specs_with_constraints[k] EXCEPT !.trusted = t]]]

set_kind(spec, kind) ==
  [base_spec |-> [spec.base_spec EXCEPT !.kind = kind],
   specs_with_constraints |->
     [k \in DOMAIN spec.specs_with_constraints |->
        [spec.specs_with_constraints[k] EXCEPT !.kind = kind]]]

(* ------------------------------ the visitor ---------------------------- *)
\* the records of the SpecCollector, and the panic that ended the visit
Collected ==
  [spec_functions |-> spec_functions, procedure_specs |-> procedure_specs,
   extern_fn_map |-> extern_fn_map, loop_specs |-> loop_specs, type_specs |-> type_specs,
   prusti_assertions |-> prusti_assertions, prusti_assumptions |-> prusti_assumptions,
   ghost_begin |-> ghost_begin, ghost_end |-> ghost_end, panic |-> NoPanic]

\* ExternSpecResolver::add_extern_fn: the declaration of a stand-in for target
add_extern_fn(map, target, local_id) == MapPut(map, target, local_id)

\* self.type_specs.entry(type_id).or_default()
TypeEntry(types, type_id) ==
  IF type_id \in DOMAIN types THEN types[type_id]
  ELSE [invariants |-> <<>>, trusted |-> FALSE]

\* one of the two blocks of visit_fn that look up the type of the enclosing
\* impl; get_type_id_from_impl_node(..).unwrap() panics when there is none
\* the type_invariant_spec block pushes the spec function onto the entry's
\* invariants, the trusted_type block sets the entry's trusted flag
WithTypeOf(st, node, trusted_type) ==
  IF st.panic # NoPanic THEN st
  ELSE IF node.impl_type = NoneDef THEN [st EXCEPT !.panic = UnwrapPanic]
  ELSE [st EXCEPT !.type_specs =
          MapPut(@, node.impl_type,
                 IF trusted_type THEN [TypeEntry(@, node.impl_type) EXCEPT !.trusted = TRUE]
                 ELSE [TypeEntry(@, node.impl_type) EXCEPT !.invariants = Append(@, node.id)])]

PushIf(st, attrs, name, field, local_id) ==
  IF st.panic = NoPanic /\ has_prusti_attr(attrs, name)
    THEN [st EXCEPT ![field] = Append(@, local_id)]
    ELSE st

\* the "collect procedure specifications" block shared by the three visitors
CollectProcedureSpec(st, local_id, attrs) ==
  LET r == get_procedure_spec_ids(local_id, attrs) IN
  IF r.panic # NoPanic THEN [st EXCEPT !.panic = r.panic]
  ELSE IF r.refs = <<>> THEN st
  ELSE [st EXCEPT !.procedure_specs = MapPut(@, local_id, r.refs[1])]

\* the body of visit_fn for node, applied to the records st
VisitFn(st, node) ==
  LET attrs == node.attrs
      local_id == node.id
  IN
  IF attrs.spec_id # <<>>
    THEN LET parsed == parse_spec_id(attrs.spec_id[1], local_id) IN
         IF parsed.panic # NoPanic THEN [st EXCEPT !.panic = parsed.panic]
         ELSE LET s0 == [st EXCEPT !.spec_functions = MapPut(@, parsed.id, local_id)]
                  s1 == PushIf(s0, attrs, "loop_body_invariant_spec", "loop_specs", local_id)
                  s2 == IF has_prusti_attr(attrs, "type_invariant_spec")
                          THEN WithTypeOf(s1, node, FALSE) ELSE s1
                  s3 == IF has_prusti_attr(attrs, "trusted_type")
                          THEN WithTypeOf(s2, node, TRUE) ELSE s2
                  s4 == PushIf(s3, attrs, "prusti_assertion", "prusti_assertions", local_id)
                  s5 == PushIf(s4, attrs, "prusti_assumption", "prusti_assumptions", local_id)
                  s6 == PushIf(s5, attrs, "ghost_begin", "ghost_begin", local_id)
                  s7 == PushIf(s6, attrs, "ghost_end", "ghost_end", local_id)
              IN s7
    ELSE \* don't collect specs "for" spec items
         LET s1 == IF has_prusti_attr(attrs, "extern_spec")
                     THEN [st EXCEPT !.extern_fn_map = add_extern_fn(@, node.target, local_id)]
                     ELSE st
         IN CollectProcedureSpec(s1, local_id, attrs)

\* the body of visit_trait_item
VisitTraitItem(st, node) == CollectProcedureSpec(st, node.id, node.attrs)

\* the body of visit_stmt; node.init is the initialiser of a Local, if any
VisitStmt(st, node) ==
  IF node.local /\ has_prusti_attr(node.attrs, "closure")
    THEN IF node.init = NoneDef THEN [st EXCEPT !.panic = ExpectPanic]
         ELSE CollectProcedureSpec(st, node.init, node.attrs)
    ELSE st

\* the visitor leaves the records st behind and goes on, or the process dies
Visited(st) ==
  /\ spec_functions' = st.spec_functions
  /\ procedure_specs' = st.procedure_specs
  /\ extern_fn_map' = st.extern_fn_map
  /\ loop_specs' = st.loop_specs
  /\ type_specs' = st.type_specs
  /\ prusti_assertions' = st.prusti_assertions
  /\ prusti_assumptions' = st.prusti_assumptions
  /\ ghost_begin' = st.ghost_begin
  /\ ghost_end' = st.ghost_end
  /\ panic' = st.panic
  /\ pc' = IF st.panic = NoPanic THEN "scanning" ELSE "aborted"
  /\ hir' = Tail(hir)
  /\ UNCHANGED <<substs, constraint_of, has_body, config, fs, exported, def_spec, body,
                 diagnostic, next_crate>>

\* variant of visit_fn that also collects a procedure record for a spec item
visit_fn_CollectsForSpecItems ==
  /\ pc = "scanning" /\ hir # <<>> /\ Head(hir).kind = "fn"
  /\ Visited(CollectProcedureSpec(VisitFn(Collected, Head(hir)),
                                  Head(hir).id, Head(hir).attrs))

visit_fn ==
  /\ pc = "scanning" /\ hir # <<>> /\ Head(hir).kind = "fn"
  /\ Visited(VisitFn(Collected, Head(hir)))

visit_trait_item ==
  /\ pc = "scanning" /\ hir # <<>> /\ Head(hir).kind = "trait_item"
  /\ Visited(VisitTraitItem(Collected, Head(hir)))

visit_stmt ==
  /\ pc = "scanning" /\ hir # <<>> /\ Head(hir).kind = "stmt"
  /\ Visited(VisitStmt(Collected, Head(hir)))

\* the call of build_def_specs once the crate has been visited
build_def_specs ==
  /\ pc = "scanning" /\ hir = <<>>
  /\ def_spec' = EmptyDefSpec
  /\ pc' = "procedures"
  /\ UNCHANGED <<hir, panic, substs, scanned, config, fs, exported, body, diagnostic, next_crate>>

(* ---------------------- determine_procedure_specs ---------------------- *)
\* self.spec_functions.get(spec_id).unwrap() succeeds for every id of r
RefResolves(r) ==
  /\ r.id \in DOMAIN spec_functions
  /\ r.lhs # NoId => r.lhs \in DOMAIN spec_functions

AllRefsResolve(refs) == \A i \in DOMAIN refs.spec_id_refs : RefResolves(refs.spec_id_refs[i])

\* variant of InitialKind in which the pure flag alone makes a predicate
InitialKind_PureIsPredicate(refs) ==
  IF refs.abstract_predicate \/ refs.pure THEN PredicateKind(NoneDef)
  ELSE Impure

\* variant of InitialKind that tests the pure flag first
InitialKind_PureFirst(refs) ==
  IF refs.pure THEN Pure
  ELSE IF refs.abstract_predicate THEN PredicateKind(NoneDef)
  ELSE Impure

\* the kind chosen from the flags before the references are looked at
InitialKind(refs) ==
  IF refs.abstract_predicate THEN PredicateKind(NoneDef)
  ELSE IF refs.pure THEN Pure
  ELSE Impure

\* variant of ApplyRef in which a kind set by a flag is not overridden
ApplyRef_FlagsWin(acc, r) ==
  CASE r.tag = "Precondition" ->
         [spec |-> add_precondition(acc.spec, spec_functions[r.id]), kind |-> acc.kind]
    [] r.tag = "Postcondition" ->
         [spec |-> add_postcondition(acc.spec, spec_functions[r.id]), kind |-> acc.kind]
    [] r.tag = "Pledge" ->
         [spec |-> add_pledge(acc.spec,
                     [reference |-> NoneDef,
                      lhs |-> IF r.lhs = NoId THEN NoneDef ELSE spec_functions[r.lhs],
                      rhs |-> spec_functions[r.id]]),
          kind |-> acc.kind]
    [] r.tag = "Predicate" ->
         [spec |-> acc.spec,
          kind |-> IF acc.kind.tag = "Impure" THEN PredicateKind(spec_functions[r.id])
                   ELSE acc.kind]

\* variant of ApplyRef that skips postcondition references
ApplyRef_SkipsPostcondition(acc, r) ==
  CASE r.tag = "Precondition" ->
         [spec |-> add_precondition(acc.spec, spec_functions[r.id]), kind |-> acc.kind]
    [] r.tag = "Postcondition" -> acc
    [] r.tag = "Pledge" ->
         [spec |-> add_pledge(acc.spec,
                     [reference |-> NoneDef,
                      lhs |-> IF r.lhs = NoId THEN NoneDef ELSE spec_functions[r.lhs],
                      rhs |-> spec_functions[r.id]]),
          kind |-> acc.kind]
    [] r.tag = "Predicate" ->
         [spec |-> acc.spec, kind |-> PredicateKind(spec_functions[r.id])]

\* one iteration of the match over spec_id_ref; acc = [spec, kind]
ApplyRef(acc, r) ==
  CASE r.tag = "Precondition" ->
         [spec |-> add_precondition(acc.spec, spec_functions[r.id]), kind |-> acc.kind]
    [] r.tag = "Postcondition" ->
         [spec |-> add_postcondition(acc.spec, spec_functions[r.id]), kind |-> acc.kind]
    [] r.tag = "Pledge" ->
         [spec |-> add_pledge(acc.spec,
                     [reference |-> NoneDef,
                      lhs |-> IF r.lhs = NoId THEN NoneDef ELSE spec_functions[r.lhs],
                      rhs |-> spec_functions[r.id]]),
          kind |-> acc.kind]
    [] r.tag = "Predicate" ->
         [spec |-> acc.spec, kind |-> PredicateKind(spec_functions[r.id])]

RECURSIVE ApplyRefs(_, _, _)
ApplyRefs(acc, rs, i) ==
  IF i > Len(rs) THEN acc ELSE ApplyRefs(ApplyRef(acc, rs[i]), rs, i + 1)

\* variant of BuildSpecGraph in which a pure procedure counts as trusted
BuildSpecGraph_TrustsPure(local_id, refs) ==
  LET acc == ApplyRefs([spec |-> SpecGraph_new(ProcedureSpecification_empty(local_id)),
                        kind |-> InitialKind(refs)],
                       refs.spec_id_refs, 1)
  IN set_kind(set_trusted(acc.spec, refs.trusted \/ refs.pure), acc.kind)

\* the SpecGraph one loop iteration builds for local_id (all refs resolve)
BuildSpecGraph(local_id, refs) ==
  LET acc == ApplyRefs([spec |-> SpecGraph_new(ProcedureSpecification_empty(local_id)),
                        kind |-> InitialKind(refs)],
                       refs.spec_id_refs, 1)
  IN set_kind(set_trusted(acc.spec, refs.trusted), acc.kind)

HasConstraints(spec) == DOMAIN spec.specs_with_constraints # {}

Diag(kind, msg, at) == [kind |-> kind, msg |-> msg, at |-> at]
GhostFeatureDiag(id) == Diag("unsupported", "ghost constraints need the feature flag", id)
GhostTrustedDiag(id) == Diag("unsupported", "ghost constraints only on trusted functions", id)

\* variant of GatingDiagnostics without the feature-flag branch
GatingDiagnostics_NoFeatureCheck(local_id, spec) ==
  IF HasConstraints(spec) /\ ~spec.base_spec.trusted THEN {GhostTrustedDiag(local_id)}
  ELSE {}

\* variant of GatingDiagnostics without the trusted-only branch
GatingDiagnostics_NoTrustedCheck(local_id, spec) ==
  IF HasConstraints(spec) /\ ~enable_ghost_constraints THEN {GhostFeatureDiag(local_id)}
  ELSE {}

\* the diagnostic, if any, the gating check emits for the graph of local_id
GatingDiagnostics(local_id, spec) ==
  IF HasConstraints(spec) /\ ~enable_ghost_constraints THEN {GhostFeatureDiag(local_id)}
  ELSE IF HasConstraints(spec) /\ ~spec.base_spec.trusted THEN {GhostTrustedDiag(local_id)}
  ELSE {}

\* variant of ProcSpecsOf in which one gating violation ends the pass with
\* nothing resolved
ProcSpecsOf_FailClosed(ids) ==
  IF \E id \in ids : GatingDiagnostics(id, BuildSpecGraph(id, procedure_specs[id])) # {}
    THEN EmptyMap
    ELSE [id \in ids |-> BuildSpecGraph(id, procedure_specs[id])]

\* the effect of the loop body for the records in ids, all of which resolve
ProcSpecsOf(ids) ==
  LET kept == {id \in ids : GatingDiagnostics(id, BuildSpecGraph(id, procedure_specs[id])) = {}}
  IN [id \in kept |-> BuildSpecGraph(id, procedure_specs[id])]

ProcDiagsOf(ids) ==
  UNION {GatingDiagnostics(id, BuildSpecGraph(id, procedure_specs[id])) : id \in ids}

determine_procedure_specs ==
  /\ pc = "procedures"
  /\ \/ /\ \A id \in DOMAIN procedure_specs : AllRefsResolve(procedure_specs[id])
        /\ def_spec' = [def_spec EXCEPT !.proc_specs =
                          MapExtend(@, ProcSpecsOf(DOMAIN procedure_specs))]
        /\ diagnostic' = diagnostic \cup ProcDiagsOf(DOMAIN procedure_specs)
        /\ pc' = "externs"
        /\ UNCHANGED panic
     \/ \* an unwrap() of a missing spec function panics; the records the
        \* hash map yielded before the failing one have been processed
        \E bad \in DOMAIN procedure_specs :
          /\ ~AllRefsResolve(procedure_specs[bad])
          /\ \E before \in SUBSET {id \in DOMAIN procedure_specs :
                                     AllRefsResolve(procedure_specs[id])} :
               /\ def_spec' = [def_spec EXCEPT !.proc_specs = MapExtend(@, ProcSpecsOf(before))]
               /\ diagnostic' = diagnostic \cup ProcDiagsOf(before)
          /\ panic' = UnwrapPanic
          /\ pc' = "aborted"
  /\ UNCHANGED <<hir, substs, scanned, config, fs, exported, body, next_crate>>

(* ----------------------- determine_extern_specs ------------------------ *)
ConflictDiag(target, spec_id) ==
  Diag("incorrect", "external specification for an item that already has one",
       <<target, spec_id>>)

\* variant of ExternIteration in which an existing entry of the target is kept
ExternIteration_LocalWins(st, target_def_id) ==
  LET spec_id == extern_fn_map[target_def_id]
      conflict == target_def_id \in DOMAIN st.proc_specs
      diags == IF conflict THEN st.diags \cup {ConflictDiag(target_def_id, spec_id)}
               ELSE st.diags
  IN IF spec_id \in DOMAIN st.proc_specs
       THEN [proc_specs |-> IF conflict THEN MapRemove(st.proc_specs, spec_id)
                            ELSE MapPut(MapRemove(st.proc_specs, spec_id),
                                        target_def_id, st.proc_specs[spec_id]),
             diags |-> diags, ok |-> TRUE]
       ELSE [proc_specs |-> st.proc_specs, diags |-> diags, ok |-> FALSE]

\* variant of ExternIteration that copies the graph and keeps the stand-in key
ExternIteration_KeepsStandIn(st, target_def_id) ==
  LET spec_id == extern_fn_map[target_def_id]
      diags == IF target_def_id \in DOMAIN st.proc_specs
                 THEN st.diags \cup {ConflictDiag(target_def_id, spec_id)}
                 ELSE st.diags
  IN IF spec_id \in DOMAIN st.proc_specs
       THEN [proc_specs |-> MapPut(st.proc_specs, target_def_id, st.proc_specs[spec_id]),
             diags |-> diags, ok |-> TRUE]
       ELSE [proc_specs |-> st.proc_specs, diags |-> diags, ok |-> FALSE]

\* one iteration of the loop over extern_fn_map; st = [proc_specs, diags, ok]
ExternIteration(st, target_def_id) ==
  LET spec_id == extern_fn_map[target_def_id]
      diags == IF target_def_id \in DOMAIN st.proc_specs
                 THEN st.diags \cup {ConflictDiag(target_def_id, spec_id)}
                 ELSE st.diags
  IN IF spec_id \in DOMAIN st.proc_specs
       THEN [proc_specs |-> MapPut(MapRemove(st.proc_specs, spec_id),
                                   target_def_id, st.proc_specs[spec_id]),
             diags |-> diags, ok |-> TRUE]
       ELSE \* remove(spec_id) is None and unwrap() panics
            [proc_specs |-> st.proc_specs, diags |-> diags, ok |-> FALSE]

RECURSIVE ExternLoop(_, _, _)
ExternLoop(st, order, i) ==
  IF i > Len(order) \/ ~st.ok THEN st
  ELSE ExternLoop(ExternIteration(st, order[i]), order, i + 1)

\* the orders in which a hash map may yield the keys in S
IterationOrders(S) ==
  {o \in [1 .. Cardinality(S) -> S] : \A a, b \in DOMAIN o : a # b => o[a] # o[b]}

determine_extern_specs ==
  /\ pc = "externs"
  /\ \E order \in IterationOrders(DOMAIN extern_fn_map) :
       LET st == ExternLoop([proc_specs |-> def_spec.proc_specs,
                             diags |-> diagnostic, ok |-> TRUE], order, 1)
       IN /\ def_spec' = [def_spec EXCEPT !.proc_specs = st.proc_specs]
          /\ diagnostic' = st.diags
          /\ pc' = IF st.ok THEN "loops" ELSE "aborted"
          /\ panic' = IF st.ok THEN panic ELSE UnwrapPanic
  /\ UNCHANGED <<hir, substs, scanned, config, fs, exported, body, next_crate>>

(* ------------- loops, types, assertions, assumptions, ghosts ----------- *)
Range(s) == {s[i] : i \in DOMAIN s}

determine_loop_specs ==
  /\ pc = "loops"
  /\ def_spec' = [def_spec EXCEPT !.loop_specs =
                    MapExtend(@, [id \in Range(loop_specs) |-> [invariant |-> id]])]
  /\ pc' = "types"
  /\ UNCHANGED <<hir, panic, substs, scanned, config, fs, exported, body, diagnostic, next_crate>>

TypeFeatureDiag(id) == Diag("unsupported", "type invariants need the feature flag", id)

\* variant of TypeSpecification that empties the invariants of a gated record
TypeSpecification_GatedEmpty(type_id, refs) ==
  [source |-> type_id,
   invariant |-> IF enable_type_invariants THEN refs.invariants ELSE <<>>,
   trusted |-> refs.trusted]

TypeSpecification(type_id, refs) ==
  [source |-> type_id, invariant |-> refs.invariants, trusted |-> refs.trusted]

\* variant of determine_type_specs whose gate also fires for the trusted flag
determine_type_specs_GatesTrusted ==
  /\ pc = "types"
  /\ diagnostic' = diagnostic \cup
       {TypeFeatureDiag(t) : t \in {u \in DOMAIN type_specs :
            (type_specs[u].invariants # <<>> \/ type_specs[u].trusted)
              /\ ~enable_type_invariants}}
  /\ def_spec' = [def_spec EXCEPT !.type_specs =
       MapExtend(@, [t \in DOMAIN type_specs |-> TypeSpecification(t, type_specs[t])])]
  /\ pc' = "assertions"
  /\ UNCHANGED <<hir, panic, substs, scanned, config, fs, exported, body, next_crate>>

determine_type_specs ==
  /\ pc = "types"
  /\ diagnostic' = diagnostic \cup
       {TypeFeatureDiag(t) : t \in {u \in DOMAIN type_specs :
            type_specs[u].invariants # <<>> /\ ~enable_type_invariants}}
  /\ def_spec' = [def_spec EXCEPT !.type_specs =
       MapExtend(@, [t \in DOMAIN type_specs |-> TypeSpecification(t, type_specs[t])])]
  /\ pc' = "assertions"
  /\ UNCHANGED <<hir, panic, substs, scanned, config, fs, exported, body, next_crate>>

determine_prusti_assertions ==
  /\ pc = "assertions"
  /\ def_spec' = [def_spec EXCEPT !.prusti_assertions =
                    MapExtend(@, [id \in Range(prusti_assertions) |-> [assertion |-> id]])]
  /\ pc' = "assumptions"
  /\ UNCHANGED <<hir, panic, substs, scanned, config, fs, exported, body, diagnostic, next_crate>>

determine_prusti_assumptions ==
  /\ pc = "assumptions"
  /\ def_spec' = [def_spec EXCEPT !.prusti_assumptions =
                    MapExtend(@, [id \in Range(prusti_assumptions) |-> [assumption |-> id]])]
  /\ pc' = "ghosts"
  /\ UNCHANGED <<hir, panic, substs, scanned, config, fs, exported, body, diagnostic, next_crate>>

\* variant of determine_ghost_begin_ends that copies the markers only when
\* ghost constraints are enabled
determine_ghost_begin_ends_Gated ==
  /\ pc = "ghosts"
  /\ def_spec' = IF enable_ghost_constraints
       THEN [def_spec EXCEPT
               !.ghost_begin = MapExtend(@, [id \in Range(ghost_begin) |-> [marker |-> id]]),
               !.ghost_end = MapExtend(@, [id \in Range(ghost_end) |-> [marker |-> id]])]
       ELSE def_spec
  /\ pc' = "mirs"
  /\ UNCHANGED <<hir, panic, substs, scanned, config, fs, exported, body, diagnostic, next_crate>>

determine_ghost_begin_ends ==
  /\ pc = "ghosts"
  /\ def_spec' = [def_spec EXCEPT
       !.ghost_begin = MapExtend(@, [id \in Range(ghost_begin) |-> [marker |-> id]]),
       !.ghost_end = MapExtend(@, [id \in Range(ghost_end) |-> [marker |-> id]])]
  /\ pc' = "mirs"
  /\ UNCHANGED <<hir, panic, substs, scanned, config, fs, exported, body, diagnostic, next_crate>>

(* ---------------------- ensure_local_mirs_fetched ---------------------- *)
\* the specification variants of a graph: the base and the constrained ones
AllSpecsOf(g) == {g.base_spec} \cup {g.specs_with_constraints[c] : c \in DOMAIN g.specs_with_constraints}

ClauseBodies(ps) ==
  Range(ps.pres) \cup Range(ps.posts)
    \cup {ps.pledges[i].rhs : i \in DOMAIN ps.pledges}
    \cup ({ps.pledges[i].lhs : i \in DOMAIN ps.pledges} \ {NoneDef})

\* DefSpecificationMap::defid_for_export: (specs, pure_fns, predicates)
defid_for_export(ds) ==
  [specs |-> UNION {ClauseBodies(ps) : ps \in UNION {AllSpecsOf(ds.proc_specs[k]) : k \in DOMAIN ds.proc_specs}}
               \cup UNION {Range(ds.type_specs[t].invariant) : t \in DOMAIN ds.type_specs},
   pure_fns |-> {k \in DOMAIN ds.proc_specs : ds.proc_specs[k].base_spec.kind = Pure},
   predicates |-> {ds.proc_specs[k].base_spec.kind.body : k \in
                     {j \in DOMAIN ds.proc_specs :
                        /\ ds.proc_specs[j].base_spec.kind.tag = "Predicate"
                        /\ ds.proc_specs[j].base_spec.kind.body # NoneDef}}]

EmptyBodies == [specs |-> {}, pure_fns |-> {}, predicates |-> {}]
\* env.body before anything is loaded; loads lists the load calls made so far,
\* one entry per loop of ensure_local_mirs_fetched
EmptyEnvBody == [local |-> EmptyBodies, external |-> EmptyBodies, loads |-> <<>>]

\* EnvBody::load_spec_body, load_pure_fn_body and load_predicate_body, each
\* called for every entity of defs
load_spec_bodies(b, defs) ==
  [b EXCEPT !.local.specs = @ \cup defs,
            !.loads = Append(@, [loader |-> "load_spec_body", defs |-> defs])]
load_pure_fn_bodies(b, defs) ==
  [b EXCEPT !.local.pure_fns = @ \cup defs,
            !.loads = Append(@, [loader |-> "load_pure_fn_body", defs |-> defs])]
load_predicate_bodies(b, defs) ==
  [b EXCEPT !.local.predicates = @ \cup defs,
            !.loads = Append(@, [loader |-> "load_predicate_body", defs |-> defs])]

\* variant of ensure_local_mirs_fetched after which the import runs at once
ensure_local_mirs_fetched_ThenImport ==
  /\ pc = "mirs"
  /\ LET ex == defid_for_export(def_spec) IN
       body' = load_predicate_bodies(
                 load_pure_fn_bodies(load_spec_bodies(body, ex.specs),
                                     {d \in ex.pure_fns : d \in has_body}),
                 ex.predicates)
  /\ pc' = IF build_output_dir THEN "import" ELSE "done"
  /\ UNCHANGED <<hir, panic, substs, scanned, config, fs, exported, def_spec, diagnostic, next_crate>>

\* variant of ensure_local_mirs_fetched without the has_body test
ensure_local_mirs_fetched_LoadsBodiless ==
  /\ pc = "mirs"
  /\ LET ex == defid_for_export(def_spec) IN
       body' = load_predicate_bodies(
                 load_pure_fn_bodies(load_spec_bodies(body, ex.specs), ex.pure_fns),
                 ex.predicates)
  /\ pc' = IF build_output_dir THEN "export" ELSE "done"
  /\ UNCHANGED <<hir, panic, substs, scanned, config, fs, exported, def_spec, diagnostic, next_crate>>

\* variant of ensure_local_mirs_fetched after which build_def_specs exports
\* and imports whether or not there is a build output directory
ensure_local_mirs_fetched_AlwaysExports ==
  /\ pc = "mirs"
  /\ LET ex == defid_for_export(def_spec) IN
       body' = load_predicate_bodies(
                 load_pure_fn_bodies(load_spec_bodies(body, ex.specs),
                                     {d \in ex.pure_fns : d \in has_body}),
                 ex.predicates)
  /\ pc' = "export"
  /\ UNCHANGED <<hir, panic, substs, scanned, config, fs, exported, def_spec, diagnostic, next_crate>>

ensure_local_mirs_fetched ==
  /\ pc = "mirs"
  /\ LET ex == defid_for_export(def_spec) IN
       body' = load_predicate_bodies(
                 load_pure_fn_bodies(load_spec_bodies(body, ex.specs),
                                     {d \in ex.pure_fns : d \in has_body}),
                 ex.predicates)
  /\ pc' = IF build_output_dir THEN "export" ELSE "done"
  /\ UNCHANGED <<hir, panic, substs, scanned, config, fs, exported, def_spec, diagnostic, next_crate>>

(* --------------------- DefSpecsEncoder / DefSpecsDecoder --------------- *)
\* every DefId the artifacts may mention; a DefId is written as the stable
\* hash of its path and read back as the DefId of the importing session
AllDefs == <<"p1", "p2", "s1", "s2", "x1", "x2", "t1", "u1", "f1", "f2", "f3", "f4",
             "g1", "g2", "i1", "l1", "a1", "h1", "b1", "e1", "k1">>
DefPathHash(d) == 100 + (CHOOSE i \in DOMAIN AllDefs : AllDefs[i] = d)
DefIdOfHash(h) == AllDefs[h - 100]
\* Option<DefId>: 0 for None
EncodeOpt(d) == IF d = NoneDef THEN 0 ELSE DefPathHash(d)
DecodeOpt(h) == IF h = 0 THEN NoneDef ELSE DefIdOfHash(h)
EncodeBool(b) == IF b THEN 1 ELSE 0
DecodeBool(n) == n = 1
EncodeDefs(seq) == [i \in DOMAIN seq |-> DefPathHash(seq[i])]
DecodeDefs(seq) == [i \in DOMAIN seq |-> DefIdOfHash(seq[i])]

KindTags == <<"Impure", "Pure", "Predicate">>
EncodeKind(k) == <<CHOOSE i \in DOMAIN KindTags : KindTags[i] = k.tag, EncodeOpt(k.body)>>
DecodeKind(e) == [tag |-> KindTags[e[1]], body |-> DecodeOpt(e[2])]

EncodeProcSpec(ps) ==
  <<DefPathHash(ps.source), EncodeKind(ps.kind), EncodeDefs(ps.pres), EncodeDefs(ps.posts),
    [i \in DOMAIN ps.pledges |-> <<EncodeOpt(ps.pledges[i].reference),
                                   EncodeOpt(ps.pledges[i].lhs),
                                   DefPathHash(ps.pledges[i].rhs)>>],
    EncodeBool(ps.trusted)>>
DecodeProcSpec(e) ==
  [source |-> DefIdOfHash(e[1]), kind |-> DecodeKind(e[2]),
   pres |-> DecodeDefs(e[3]), posts |-> DecodeDefs(e[4]),
   pledges |-> [i \in DOMAIN e[5] |-> [reference |-> DecodeOpt(e[5][i][1]),
                                       lhs |-> DecodeOpt(e[5][i][2]),
                                       rhs |-> DefIdOfHash(e[5][i][3])]],
   trusted |-> DecodeBool(e[6])]

RECURSIVE SetToSeq(_)
SetToSeq(S) == IF S = {} THEN <<>>
               ELSE LET x == CHOOSE y \in S : TRUE IN <<x>> \o SetToSeq(S \ {x})

\* a constraint travels as its position in the list of constraints
ConstraintList == SetToSeq(Constraints)
EncodeConstraint(c) == CHOOSE i \in DOMAIN ConstraintList : ConstraintList[i] = c
DecodeConstraint(n) == ConstraintList[n]

EncodeSpecGraph(g) ==
  LET cs == SetToSeq(DOMAIN g.specs_with_constraints) IN
  <<EncodeProcSpec(g.base_spec),
    [i \in DOMAIN cs |-> <<EncodeConstraint(cs[i]), EncodeProcSpec(g.specs_with_constraints[cs[i]])>>]>>
DecodeSpecGraph(e) ==
  [base_spec |-> DecodeProcSpec(e[1]),
   specs_with_constraints |->
     [c \in {DecodeConstraint(e[2][i][1]) : i \in DOMAIN e[2]} |->
        DecodeProcSpec(e[2][CHOOSE i \in DOMAIN e[2] : DecodeConstraint(e[2][i][1]) = c][2])]]

EncodeTypeSpec(t) == <<DefPathHash(t.source), EncodeDefs(t.invariant), EncodeBool(t.trusted)>>
DecodeTypeSpec(e) == [source |-> DefIdOfHash(e[1]), invariant |-> DecodeDefs(e[2]),
                      trusted |-> DecodeBool(e[3])]

\* a map is written as its length followed by its (key, value) pairs
RECURSIVE EncodeEntries(_, _)
EncodeEntries(m, keys) ==
  IF keys = <<>> THEN <<>>
  ELSE <<DefPathHash(Head(keys)), m[Head(keys)]>> \o EncodeEntries(m, Tail(keys))
EncodeMap(m) == <<Cardinality(DOMAIN m)>> \o EncodeEntries(m, SetToSeq(DOMAIN m))

\* reads one map from the front of data; [map, rest]
DecodeMap(data) ==
  LET n == data[1]
      keyAt(i) == DefIdOfHash(data[2 * i])
  IN [map |-> [k \in {keyAt(i) : i \in 1 .. n} |->
                 data[2 * (CHOOSE i \in 1 .. n : keyAt(i) = k /\ \A j \in 1 .. n : keyAt(j) = k => j <= i) + 1]],
      rest |-> SubSeq(data, 2 * n + 2, Len(data))]

EncodeDefSet(S) == <<Cardinality(S)>> \o EncodeDefs(SetToSeq(S))
DecodeDefSet(data) ==
  [set |-> {DefIdOfHash(data[i + 1]) : i \in 1 .. data[1]},
   rest |-> SubSeq(data, data[1] + 2, Len(data))]

\* CrossCrateBodies: the three groups of loaded local bodies
EncodeBodies(b) == EncodeDefSet(b.specs) \o EncodeDefSet(b.pure_fns) \o EncodeDefSet(b.predicates)
DecodeBodies(data) ==
  LET s == DecodeDefSet(data)
      f == DecodeDefSet(s.rest)
      p == DecodeDefSet(f.rest)
  IN [bodies |-> [specs |-> s.set, pure_fns |-> f.set, predicates |-> p.set], rest |-> p.rest]

(* --------------------------- write_into_file --------------------------- *)
\* the bytes handed to file.write: proc_specs, type_specs, bodies in this order
EncodedFile(procs, types, bodies) ==
  EncodeMap([k \in DOMAIN procs |-> EncodeSpecGraph(procs[k])])
    \o EncodeMap([k \in DOMAIN types |-> EncodeTypeSpec(types[k])])
    \o EncodeBodies(bodies)

NoFile == [exists |-> FALSE, data |-> <<>>]
File(data) == [exists |-> TRUE, data |-> data]

ExportDiag == Diag("internal", "error exporting specs to file", "DUMMY_SP")
ImportDiag(c) == Diag("internal", "error importing specs from file", <<"DUMMY_SP", c>>)

\* outcomes of write_into_file: everything written; create_dir_all or
\* File::create failed; the file was created but the write failed
WriteOutcomes == {"written", "create_failed", "write_failed"}

\* variant of write_into_file after whose failure build_def_specs returns at once
write_into_file_FailureReturns ==
  /\ pc = "export"
  /\ \E outcome \in WriteOutcomes :
       /\ fs' = CASE outcome = "written" ->
                       [fs EXCEPT ![LOCAL_CRATE] =
                          File(EncodedFile(def_spec.proc_specs, def_spec.type_specs, body.local))]
                  [] outcome = "create_failed" -> fs
                  [] outcome = "write_failed" -> [fs EXCEPT ![LOCAL_CRATE] = File(<<>>)]
       /\ exported' = IF outcome = "written"
                        THEN [exported EXCEPT ![LOCAL_CRATE] =
                                [written |-> TRUE, proc_specs |-> def_spec.proc_specs,
                                 type_specs |-> def_spec.type_specs,
                                 bodies |-> body.local]]
                        ELSE exported
       /\ diagnostic' = IF outcome = "written" THEN diagnostic
                        ELSE diagnostic \cup {ExportDiag}
       /\ pc' = IF crates = <<>> \/ outcome # "written" THEN "done" ELSE "import"
  /\ next_crate' = 1
  /\ UNCHANGED <<hir, panic, substs, scanned, config, def_spec, body>>

write_into_file ==
  /\ pc = "export"
  /\ \E outcome \in WriteOutcomes :
       /\ fs' = CASE outcome = "written" ->
                       [fs EXCEPT ![LOCAL_CRATE] =
                          File(EncodedFile(def_spec.proc_specs, def_spec.type_specs, body.local))]
                  [] outcome = "create_failed" -> fs
                  [] outcome = "write_failed" -> [fs EXCEPT ![LOCAL_CRATE] = File(<<>>)]
       /\ exported' = IF outcome = "written"
                        THEN [exported EXCEPT ![LOCAL_CRATE] =
                                [written |-> TRUE, proc_specs |-> def_spec.proc_specs,
                                 type_specs |-> def_spec.type_specs,
                                 bodies |-> body.local]]
                        ELSE exported
       /\ diagnostic' = IF outcome = "written" THEN diagnostic
                        ELSE diagnostic \cup {ExportDiag}
  /\ next_crate' = 1
  /\ pc' = IF crates = <<>> THEN "done" ELSE "import"
  /\ UNCHANGED <<hir, panic, substs, scanned, config, def_spec, body>>

(* --------------------------- import_from_file -------------------------- *)
\* DefSpecificationMap::import_external
\* variant of import_external in which the imported maps replace the current ones
import_external_Replaces(ds, procs, types) ==
  [ds EXCEPT !.proc_specs = procs,
             !.type_specs = types]

import_external(ds, procs, types) ==
  [ds EXCEPT !.proc_specs = MapExtend(@, procs),
             !.type_specs = MapExtend(@, types)]

\* CrossCrateBodies::import_external_bodies
import_external_bodies(b, mirs_of_specs) ==
  [b EXCEPT !.external = [specs |-> @.specs \cup mirs_of_specs.specs,
                          pure_fns |-> @.pure_fns \cup mirs_of_specs.pure_fns,
                          predicates |-> @.predicates \cup mirs_of_specs.predicates]]

\* the three sections in the order import_from_file decodes them
DecodedFile(data) ==
  LET p == DecodeMap(data)
      t == DecodeMap(p.rest)
      m == DecodeBodies(t.rest)
  IN [proc_specs |-> [k \in DOMAIN p.map |-> DecodeSpecGraph(p.map[k])],
      type_specs |-> [k \in DOMAIN t.map |-> DecodeTypeSpec(t.map[k])],
      mirs_of_specs |-> m.bodies]

\* variant of import_from_file that forgets the type section
import_from_file_SkipsTypes(ds, data) ==
  LET d == DecodedFile(data) IN import_external(ds, d.proc_specs, EmptyMap)

\* variant of import_from_file in which an entry already in the map is kept
import_from_file_KeepsExisting(ds, data) ==
  LET d == DecodedFile(data) IN
  [ds EXCEPT !.proc_specs = MapExtend(d.proc_specs, @),
             !.type_specs = MapExtend(d.type_specs, @)]

import_from_file(ds, data) ==
  LET d == DecodedFile(data) IN import_external(ds, d.proc_specs, d.type_specs)

\* file.is_file() for the artifact path of crate_num
is_file(crate_num) == fs[crate_num].exists

\* variant of ImportIteration that merges what it can of an unreadable artifact
ImportIteration_KeepsPartial(st, crate_num) ==
  IF crate_num = LOCAL_CRATE \/ ~is_file(crate_num) THEN st
  ELSE [def_spec |-> import_from_file(st.def_spec, fs[crate_num].data),
        body |-> import_external_bodies(st.body, DecodedFile(fs[crate_num].data).mirs_of_specs),
        diags |-> IF crate_num \in unreadable THEN st.diags \cup {ImportDiag(crate_num)}
                  ELSE st.diags]

\* variant of ImportIteration that reports an imported entry for the target
\* of an extern declaration as a conflict
ImportIteration_ReportsConflict(st, crate_num) ==
  IF crate_num = LOCAL_CRATE \/ ~is_file(crate_num) THEN st
  ELSE IF crate_num \in unreadable
    THEN [st EXCEPT !.diags = @ \cup {ImportDiag(crate_num)}]
  ELSE [def_spec |-> import_from_file(st.def_spec, fs[crate_num].data),
        body |-> import_external_bodies(st.body, DecodedFile(fs[crate_num].data).mirs_of_specs),
        diags |-> st.diags \cup
                    {ConflictDiag(t, extern_fn_map[t]) :
                       t \in DOMAIN extern_fn_map
                                \cap DOMAIN DecodedFile(fs[crate_num].data).proc_specs}]

\* variant of ImportIteration without the LOCAL_CRATE test (a file left empty
\* by a failed write is passed over)
ImportIteration_ReadsLocal(st, crate_num) ==
  IF ~is_file(crate_num) \/ fs[crate_num].data = <<>> THEN st
  ELSE IF crate_num \in unreadable
    THEN [st EXCEPT !.diags = @ \cup {ImportDiag(crate_num)}]
  ELSE [def_spec |-> import_from_file(st.def_spec, fs[crate_num].data),
        body |-> import_external_bodies(st.body, DecodedFile(fs[crate_num].data).mirs_of_specs),
        diags |-> st.diags]

\* the body of the loop over tcx.crates(()); st = [def_spec, body, diags]
ImportIteration(st, crate_num) ==
  IF crate_num = LOCAL_CRATE THEN st
  ELSE IF ~is_file(crate_num) THEN st
  ELSE IF crate_num \in unreadable
    THEN \* File::open or read_to_end returns Err before anything is decoded
         [st EXCEPT !.diags = @ \cup {ImportDiag(crate_num)}]
  ELSE [def_spec |-> import_from_file(st.def_spec, fs[crate_num].data),
        body |-> import_external_bodies(st.body, DecodedFile(fs[crate_num].data).mirs_of_specs),
        diags |-> st.diags]

\* one iteration of the loop of import_specs_from_dependencies
import_specs_from_dependencies ==
  /\ pc = "import"
  /\ next_crate <= Len(crates)
  /\ LET st == ImportIteration([def_spec |-> def_spec, body |-> body, diags |-> diagnostic],
                               crates[next_crate])
     IN /\ def_spec' = st.def_spec
        /\ body' = st.body
        /\ diagnostic' = st.diags
  /\ next_crate' = next_crate + 1
  /\ pc' = IF next_crate = Len(crates) THEN "done" ELSE "import"
  /\ UNCHANGED <<hir, panic, substs, scanned, config, fs, exported>>

(* ------------------------------- Init ---------------------------------- *)
\* the scanner's table when the spec functions with the ids in R were visited
SpecFunctionsFor(R) ==
  [i \in R \cup DOMAIN MarkerSpecFunctions |->
     IF i \in R THEN SpecFnOf(i) ELSE MarkerSpecFunctions[i]]

Unconstrained == [f \in SpecFns |-> NoConstraint]
LastConstrained == [f \in SpecFns |-> IF f = SpecFnOf(LastSpecId) THEN "c1" ELSE NoConstraint]

\* every spec function was visited and none or the last one is constrained,
\* or the last one was never visited
SpecFunctionChoices ==
  {<<SpecFunctionsFor(SpecIds), Unconstrained>>,
   <<SpecFunctionsFor(SpecIds), LastConstrained>>,
   <<SpecFunctionsFor(SpecIds \ {LastSpecId}), Unconstrained>>}

Refs(rs, pure, abstract_predicate, trusted) ==
  [spec_id_refs |-> rs, pure |-> pure, abstract_predicate |-> abstract_predicate,
   trusted |-> trusted]

\* recs gives each procedure the set of its records: none or one
ProcedureMap(recs) ==
  [id \in {d \in DOMAIN recs : recs[d] # {}} |-> CHOOSE r \in recs[id] : TRUE]
Some(r) == {r}

\* specification graphs a dependency crate may have exported for item k
DepGraph(k, kind, pres, trusted, constrained) ==
  LET base == [source |-> k, kind |-> kind, pres |-> pres, posts |-> <<>>,
               pledges |-> <<>>, trusted |-> trusted]
  IN [base_spec |-> base,
      specs_with_constraints |->
        IF constrained THEN [c \in {"c1"} |-> [base EXCEPT !.posts = <<"g2">>]] ELSE EmptyMap]

DepGraphs(k) ==
  {DepGraph(k, Impure, <<"g1">>, FALSE, FALSE),
   DepGraph(k, Pure, <<>>, TRUE, FALSE),
   DepGraph(k, Impure, <<"g1">>, TRUE, TRUE)}

DepBodiesOf(procs, types) ==
  defid_for_export([proc_specs |-> procs, type_specs |-> types])

DepExport(procs, types) ==
  [written |-> TRUE, proc_specs |-> procs, type_specs |-> types,
   bodies |-> [DepBodiesOf(procs, types) EXCEPT !.pure_fns = {}]]

DepTypeSpec == [source |-> "u1", invariant |-> <<"g1">>, trusted |-> FALSE]

\* what the run of a dependency crate may have exported
DepExports ==
  {DepExport(procs, types) :
     procs \in UNION {[K -> UNION {DepGraphs(k) : k \in K}] : K \in SUBSET {"x1"}},
     types \in {EmptyMap, [t \in {"u1"} |-> DepTypeSpec]}}

NoExport == [written |-> FALSE, proc_specs |-> EmptyMap, type_specs |-> EmptyMap,
             bodies |-> EmptyBodies]

FileOf(e) == IF ~e.written THEN NoFile
             ELSE File(EncodedFile(e.proc_specs, e.type_specs, e.bodies))

InitControl ==
  /\ def_spec = EmptyDefSpec
  /\ hir = <<>>
  /\ panic = NoPanic
  /\ substs = NoSubsts
  /\ body = EmptyEnvBody
  /\ diagnostic = {}
  /\ next_crate = 1
  /\ pc = "procedures"

\* the procedure-centred start states, reached when the visitor is done:
\* every record the scanner can build for
\* p1, next to a pure trait method p2 and the stand-ins s1 and s2
Init ==
  /\ \E c \in SpecFunctionChoices : spec_functions = c[1] /\ constraint_of = c[2]
  /\ \E p1 \in {{}} \cup {Some(r) : r \in ProcedureSpecRefs},
        s1 \in {Some(Refs(<<>>, FALSE, FALSE, TRUE)),
                Some(Refs(<<Precondition(LastSpecId)>>, FALSE, FALSE, TRUE))} :
       procedure_specs =
         ProcedureMap([d \in {"p1", "p2", "s1", "s2"} |->
           CASE d = "p1" -> p1
             [] d = "p2" -> Some(Refs(<<>>, TRUE, FALSE, FALSE))
             [] d = "s1" -> s1
             [] d = "s2" -> Some(Refs(<<>>, TRUE, FALSE, TRUE))])
  /\ extern_fn_map \in {EmptyMap, [t \in {"p1"} |-> "s1"],
                        [t \in {"p1", "x1"} |-> IF t = "x1" THEN "s1" ELSE "s2"]}
  /\ loop_specs = <<"l1">>
  /\ type_specs = [t \in {"t1"} |-> [invariants |-> <<"i1">>, trusted |-> FALSE]]
  /\ prusti_assertions = <<"a1">>
  /\ prusti_assumptions = <<"h1">>
  /\ ghost_begin = <<"b1">>
  /\ ghost_end = <<"e1">>
  /\ has_body = {"p1", "s1", "s2"}
  /\ enable_ghost_constraints \in BOOLEAN
  /\ enable_type_invariants = FALSE
  /\ build_output_dir = TRUE
  /\ crates = <<"depA">>
  /\ exported = [c \in DepCrates \cup {LOCAL_CRATE} |->
                   IF c = "depA"
                     THEN DepExport([k \in {"x2"} |-> DepGraph(k, Pure, <<>>, TRUE, FALSE)], EmptyMap)
                     ELSE NoExport]
  /\ fs = [c \in DepCrates \cup {LOCAL_CRATE} |-> FileOf(exported[c])]
  /\ unreadable = {}
  /\ InitControl

Next ==
  \/ determine_procedure_specs
  \/ determine_extern_specs
  \/ determine_loop_specs
  \/ determine_type_specs
  \/ determine_prusti_assertions
  \/ determine_prusti_assumptions
  \/ determine_ghost_begin_ends
  \/ ensure_local_mirs_fetched
  \/ write_into_file
  \/ import_specs_from_dependencies

Spec == Init /\ [][Next]_vars

(* ---------------------------- InitImport ------------------------------ *)
\* the persistence-centred start states: a few local scans (procedure records
\* with the extern declarations), every shape of the type record, both
\* feature flags, and two dependency crates with or without an artifact
LocalScans ==
  {<<EmptyMap, EmptyMap>>,
   <<[d \in {"p1"} |-> Refs(<<Precondition(1), Precondition(LastSpecId)>>, FALSE, FALSE, TRUE)],
     EmptyMap>>,
   <<[d \in {"p1", "s1"} |->
        IF d = "p1" THEN Refs(<<Postcondition(LastSpecId)>>, TRUE, FALSE, FALSE)
        ELSE Refs(<<Precondition(LastSpecId)>>, FALSE, FALSE, TRUE)],
     [t \in {"x1"} |-> "s1"]>>,
   <<[d \in {"p1", "p2"} |->
        IF d = "p1" THEN Refs(<<Pledge(1, LastSpecId), Predicate(1)>>, FALSE, TRUE, FALSE)
        ELSE Refs(<<>>, TRUE, FALSE, FALSE)],
     EmptyMap>>,
   <<[d \in {"p1", "s1"} |->
        IF d = "p1" THEN Refs(<<Precondition(1)>>, FALSE, FALSE, FALSE)
        ELSE Refs(<<Postcondition(1)>>, FALSE, FALSE, TRUE)],
     [t \in {"p1"} |-> "s1"]>>}

\* TypeSpecRefs as visit_fn builds them: an entry exists once an invariant was
\* pushed or the trusted flag was set
TypeScans ==
  {EmptyMap} \cup
  {[t \in {"t1"} |-> r] :
     r \in {x \in [invariants : {<<>>, <<"i1">>}, trusted : BOOLEAN] :
              x.invariants # <<>> \/ x.trusted}}

ProcOnlyExports == {e \in DepExports : e.type_specs = EmptyMap /\ e.proc_specs # EmptyMap}

InitImport ==
  /\ spec_functions = SpecFunctionsFor(SpecIds)
  /\ constraint_of = LastConstrained
  /\ \E scan \in LocalScans : procedure_specs = scan[1] /\ extern_fn_map = scan[2]
  /\ loop_specs = <<"l1">>
  /\ type_specs \in TypeScans
  /\ prusti_assertions = <<"a1">>
  /\ prusti_assumptions = <<"h1">>
  /\ ghost_begin = <<"b1">>
  /\ ghost_end = <<"e1">>
  /\ has_body = {"p1", "s1"}
  /\ enable_ghost_constraints \in BOOLEAN
  /\ enable_type_invariants \in BOOLEAN
  /\ build_output_dir \in BOOLEAN
  /\ crates \in {<<"depA", "depB">>, <<"depB", "depA">>, <<LOCAL_CRATE, "depA">>}
  /\ \E a \in DepExports \cup {NoExport}, b \in ProcOnlyExports \cup {NoExport} :
       exported = [c \in DepCrates \cup {LOCAL_CRATE} |->
                     CASE c = "depA" -> a [] c = "depB" -> b [] OTHER -> NoExport]
  /\ fs = [c \in DepCrates \cup {LOCAL_CRATE} |-> FileOf(exported[c])]
  /\ unreadable \in {{}, {"depA"}}
  /\ InitControl

SpecImport == InitImport /\ [][Next]_vars

(* ----------------------------- InitScan ------------------------------- *)
\* the decimal text of n
RECURSIVE Numeral(_)
Numeral(n) == IF n < 10 THEN <<Digits[n + 1]>> ELSE Numeral(n \div 10) \o <<Digits[(n % 10) + 1]>>
\* a text that is no SpecificationId
Malformed == <<"x">>

Attrs(spec_id, pre, post, pledge, assert_lhs, assert_rhs, pred, flags) ==
  [spec_id |-> spec_id, pre |-> pre, post |-> post, pledge |-> pledge,
   assert_lhs |-> assert_lhs, assert_rhs |-> assert_rhs, pred |-> pred, flags |-> flags]
SpecItemAttrs(raw, flags) == Attrs(<<raw>>, <<>>, <<>>, <<>>, <<>>, <<>>, <<>>, flags)
\* a function, a trait method, a local statement
FnNode(id, attrs, impl_type, target) ==
  [kind |-> "fn", id |-> id, attrs |-> attrs, impl_type |-> impl_type, target |-> target,
   local |-> FALSE, init |-> NoneDef]
TraitItemNode(id, attrs) ==
  [kind |-> "trait_item", id |-> id, attrs |-> attrs, impl_type |-> NoneDef,
   target |-> NoneDef, local |-> FALSE, init |-> NoneDef]
StmtNode(local, init, attrs) ==
  [kind |-> "stmt", id |-> NoneDef, attrs |-> attrs, impl_type |-> NoneDef,
   target |-> NoneDef, local |-> local, init |-> init]

\* the spec function of the first SpecificationId, its tag well-formed (and
\* next to procedure flags that visit_fn does not look at) or not
FirstSpecFnNodes ==
  {<<FnNode(SpecFnOf(1), SpecItemAttrs(Numeral(1), {"trusted", "extern_spec"}),
            NoneDef, NoneDef)>>,
   <<FnNode(SpecFnOf(1), SpecItemAttrs(Malformed, {}), NoneDef, NoneDef)>>}
\* the spec function of the last one: plain, carrying procedure tags of its
\* own (one of them malformed), or not there at all
LastSpecFnNodes ==
  {<<FnNode(SpecFnOf(LastSpecId), SpecItemAttrs(Numeral(LastSpecId), {}), NoneDef, NoneDef)>>,
   <<FnNode(SpecFnOf(LastSpecId),
            Attrs(<<Numeral(LastSpecId)>>, <<Malformed>>, <<>>, <<>>, <<>>, <<>>, <<>>,
                  {"pure", "trusted"}),
            NoneDef, NoneDef)>>,
   <<>>}
MarkerFlags == <<{"type_invariant_spec"}, {"loop_body_invariant_spec"}, {"prusti_assertion"},
                 {"prusti_assumption"}, {"ghost_begin"}, {"ghost_end"}>>
MarkerNodes ==
  [k \in DOMAIN MarkerFns |->
     FnNode(MarkerFns[k], SpecItemAttrs(Numeral(10 + k), MarkerFlags[k]),
            IF k = 1 THEN "t1" ELSE NoneDef, NoneDef)]
ProcedureNodes ==
  {<<FnNode("p1", a, NoneDef, NoneDef)>> :
     a \in {Attrs(<<>>, <<Numeral(1)>>, <<Numeral(LastSpecId)>>, <<>>, <<>>, <<>>, <<>>, {}),
            Attrs(<<>>, <<Numeral(1), Malformed>>, <<>>, <<>>, <<>>, <<>>, <<>>, {}),
            Attrs(<<>>, <<>>, <<>>, <<Numeral(LastSpecId)>>, <<Numeral(1)>>,
                  <<Numeral(LastSpecId)>>, <<>>, {}),
            Attrs(<<>>, <<>>, <<>>, <<>>, <<Numeral(1)>>, <<>>, <<>>, {}),
            Attrs(<<>>, <<>>, <<>>, <<>>, <<Numeral(1)>>, <<Malformed>>, <<>>, {}),
            Attrs(<<>>, <<>>, <<>>, <<>>, <<>>, <<Numeral(1)>>, <<>>, {"pure"}),
            Attrs(<<>>, <<Numeral(1)>>, <<>>, <<>>, <<>>, <<>>, <<>>,
                  {"loop_body_invariant_spec", "trusted_type", "prusti_assertion",
                   "ghost_begin"}),
            Attrs(<<>>, <<>>, <<>>, <<>>, <<>>, <<>>, <<Numeral(LastSpecId)>>,
                  {"abstract_predicate", "pure"}),
            Attrs(<<>>, <<>>, <<>>, <<>>, <<>>, <<>>, <<>>, {})}}
TraitItemNodes ==
  {<<TraitItemNode("p2", Attrs(<<>>, <<>>, <<>>, <<>>, <<>>, <<>>, <<>>, {"pure"}))>>,
   <<TraitItemNode("p2", Attrs(<<>>, <<>>, <<>>, <<>>, <<>>, <<>>, <<Malformed>>, {}))>>}
StandInNodes ==
  {<<FnNode("s1", Attrs(<<>>, <<Numeral(LastSpecId)>>, <<>>, <<>>, <<>>, <<>>, <<>>,
                        {"extern_spec", "trusted"}),
            NoneDef, "x1")>>,
   <<FnNode("s1", Attrs(<<>>, <<>>, <<>>, <<>>, <<>>, <<>>, <<>>, {"extern_spec"}),
            NoneDef, "x1")>>,
   <<>>}
StmtNodes ==
  {<<StmtNode(TRUE, "k1", Attrs(<<>>, <<Numeral(1)>>, <<>>, <<>>, <<>>, <<>>, <<>>, {"closure"}))>>,
   <<StmtNode(TRUE, "k1", Attrs(<<>>, <<Malformed>>, <<>>, <<>>, <<>>, <<>>, <<>>, {}))>>,
   <<StmtNode(FALSE, NoneDef, Attrs(<<>>, <<>>, <<>>, <<>>, <<>>, <<>>, <<>>, {}))>>}

\* the start states of the visit: a crate whose HIR holds the spec functions,
\* the marker functions, a procedure, a trait method, a stand-in and a local
\* statement; nothing has been collected yet
InitScan ==
  /\ \E f \in FirstSpecFnNodes, l \in LastSpecFnNodes, p \in ProcedureNodes,
        t \in TraitItemNodes, e \in StandInNodes, c \in StmtNodes :
       hir = f \o l \o MarkerNodes \o p \o t \o e \o c
  /\ panic = NoPanic
  /\ substs = NoSubsts
  /\ spec_functions = EmptyMap
  /\ constraint_of = LastConstrained
  /\ procedure_specs = EmptyMap
  /\ extern_fn_map = EmptyMap
  /\ loop_specs = <<>>
  /\ type_specs = EmptyMap
  /\ prusti_assertions = <<>>
  /\ prusti_assumptions = <<>>
  /\ ghost_begin = <<>>
  /\ ghost_end = <<>>
  /\ has_body = {"p1", "s1", "k1"}
  /\ enable_ghost_constraints = TRUE
  /\ enable_type_invariants = FALSE
  /\ build_output_dir = TRUE
  /\ crates = <<"depA">>
  /\ exported = [c \in DepCrates \cup {LOCAL_CRATE} |->
                   IF c = "depA"
                     THEN DepExport([k \in {"x2"} |-> DepGraph(k, Pure, <<>>, TRUE, FALSE)], EmptyMap)
                     ELSE NoExport]
  /\ fs = [c \in DepCrates \cup {LOCAL_CRATE} |-> FileOf(exported[c])]
  /\ unreadable = {}
  /\ def_spec = EmptyDefSpec
  /\ body = EmptyEnvBody
  /\ diagnostic = {}
  /\ next_crate = 1
  /\ pc = "scanning"

NextScan ==
  \/ visit_fn
  \/ visit_trait_item
  \/ visit_stmt
  \/ build_def_specs
  \/ Next

SpecScan == InitScan /\ [][NextScan]_vars

\* ---- the inputs of Substs::learn and Substs::apply ----
\* a generic string is at most MaxPieces pieces, each a placeholder or a
\* character of literal text
MaxPieces == 3
TypeParamNames == {<<"A">>, <<"B">>}
Placeholder(name) == TYPARAM_OPEN \o name \o TYPARAM_CLOSE
LiteralPieces == {<<"a">>, <<"$">>, <<".">>}
Pieces == {Placeholder(n) : n \in TypeParamNames} \cup LiteralPieces
\* what a type parameter is instantiated with
Instantiations == {<<>>, <<"a">>, <<"b">>, Placeholder(<<"B">>)}

RECURSIVE Flatten(_)
Flatten(pieces) == IF pieces = <<>> THEN <<>> ELSE Head(pieces) \o Flatten(Tail(pieces))
\* the generic string with every placeholder piece replaced by its instantiation
RECURSIVE Instantiate(_, _)
Instantiate(pieces, sigma) ==
  IF pieces = <<>> THEN <<>>
  ELSE (IF Head(pieces) \in LiteralPieces THEN Head(pieces)
        ELSE sigma[Head(pieces)]) \o Instantiate(Tail(pieces), sigma)

\* learn is called with a generic string and an instance of it (or a string
\* that is no instance, on which captures(to).unwrap() fails); apply is called
\* with the generic string, a part of it, or a string with another placeholder
InitSubsts ==
  /\ \E pieces \in SeqsUpTo(Pieces, MaxPieces),
        sigma \in [{Placeholder(n) : n \in TypeParamNames} -> Instantiations] :
       \E to \in {Instantiate(pieces, sigma), <<"b">>},
          i \in 1 .. Len(pieces) + 1, j \in 0 .. Len(pieces) :
          \E inner \in {Flatten(SubSeq(pieces, i, j)), Placeholder(<<"B">>)} :
            substs = [stage |-> "args", outer1 |-> Flatten(pieces), outer2 |-> to,
                      inner1 |-> inner, repls |-> <<>>, newstr |-> <<>>]
  /\ hir = <<>>
  /\ panic = NoPanic
  /\ spec_functions = EmptyMap
  /\ constraint_of = LastConstrained
  /\ procedure_specs = EmptyMap
  /\ extern_fn_map = EmptyMap
  /\ loop_specs = <<>>
  /\ type_specs = EmptyMap
  /\ prusti_assertions = <<>>
  /\ prusti_assumptions = <<>>
  /\ ghost_begin = <<>>
  /\ ghost_end = <<>>
  /\ has_body = {}
  /\ enable_ghost_constraints = FALSE
  /\ enable_type_invariants = FALSE
  /\ build_output_dir = TRUE
  /\ crates = <<>>
  /\ exported = [c \in DepCrates \cup {LOCAL_CRATE} |-> NoExport]
  /\ fs = [c \in DepCrates \cup {LOCAL_CRATE} |-> FileOf(exported[c])]
  /\ unreadable = {}
  /\ def_spec = EmptyDefSpec
  /\ body = EmptyEnvBody
  /\ diagnostic = {}
  /\ next_crate = 1
  /\ pc = "typaram"

NextSubsts ==
  \/ Substs_learn
  \/ Substs_apply

SpecSubsts == InitSubsts /\ [][NextSubsts]_vars

(* ============================ properties =============================== *)
\* the scanner record behind a graph that this run built
LocallyBuilt(g) == g.base_spec.source \in DOMAIN procedure_specs
RecordOf(g) == procedure_specs[g.base_spec.source]
HasPredicateRef(refs) ==
  \E i \in DOMAIN refs.spec_id_refs : refs.spec_id_refs[i].tag = "Predicate"
\* the record has a pre- or postcondition whose spec function is ghost-constrained
ScansConstrained(refs) ==
  \E i \in DOMAIN refs.spec_id_refs :
     /\ refs.spec_id_refs[i].tag \in {"Precondition", "Postcondition"}
     /\ refs.spec_id_refs[i].id \in DOMAIN spec_functions
     /\ constraint_of[spec_functions[refs.spec_id_refs[i].id]] # NoConstraint
ProcGraphs == {def_spec.proc_specs[k] : k \in DOMAIN def_spec.proc_specs}

\* C1: a graph built from a record with a Predicate(spec_id) reference has
\* kind Predicate(Some(spec function of spec_id)), whatever the
\* abstract_predicate and pure flags of the record are.
C1_KindPrecedence ==
  \A g \in ProcGraphs :
    LocallyBuilt(g) =>
      \A i \in DOMAIN RecordOf(g).spec_id_refs :
        RecordOf(g).spec_id_refs[i].tag = "Predicate" =>
          /\ g.base_spec.kind = PredicateKind(spec_functions[RecordOf(g).spec_id_refs[i].id])
          /\ g.base_spec.kind # PredicateKind(NoneDef)
          /\ g.base_spec.kind # Pure

C1_Witness ==
  \E g \in ProcGraphs :
    /\ LocallyBuilt(g)
    /\ RecordOf(g).abstract_predicate /\ RecordOf(g).pure
    /\ HasPredicateRef(RecordOf(g))
    /\ g.base_spec.kind.tag = "Predicate" /\ g.base_spec.kind.body \in SpecFns

\* C2: right after determine_procedure_specs, a trusted procedure whose record
\* yields a constrained variant has no entry when ghost constraints are
\* disabled, and an entry with a non-empty constrained-variant set when they
\* are enabled.
C2_GatingDrop ==
  pc = "externs" =>
    \A id \in DOMAIN procedure_specs :
      ScansConstrained(procedure_specs[id]) /\ procedure_specs[id].trusted =>
        IF enable_ghost_constraints
          THEN /\ id \in DOMAIN def_spec.proc_specs
               /\ HasConstraints(def_spec.proc_specs[id])
          ELSE id \notin DOMAIN def_spec.proc_specs

C2_Witness ==
  /\ pc = "externs"
  /\ ~enable_ghost_constraints
  /\ \E id \in DOMAIN procedure_specs :
       /\ ScansConstrained(procedure_specs[id]) /\ procedure_specs[id].trusted
       /\ id \notin DOMAIN def_spec.proc_specs
       /\ GhostFeatureDiag(id) \in diagnostic

\* the entity a reference resolved to is attached to the graph
Attached(g, r) ==
  CASE r.tag = "Precondition" ->
         \E ps \in AllSpecsOf(g) : spec_functions[r.id] \in Range(ps.pres)
    [] r.tag = "Postcondition" ->
         \E ps \in AllSpecsOf(g) : spec_functions[r.id] \in Range(ps.posts)
    [] r.tag = "Pledge" ->
         [reference |-> NoneDef,
          lhs |-> IF r.lhs = NoId THEN NoneDef ELSE spec_functions[r.lhs],
          rhs |-> spec_functions[r.id]] \in Range(g.base_spec.pledges)
    [] r.tag = "Predicate" -> g.base_spec.kind = PredicateKind(spec_functions[r.id])

\* C6: once determine_procedure_specs has returned, every SpecificationId of
\* every reference of every record is in spec_functions (otherwise the run is
\* aborted), and every graph in the map carries the entity each reference of
\* its record resolves to.
C6_ResolutionCompleteness ==
  /\ pc \notin {"procedures", "aborted"} =>
       \A id \in DOMAIN procedure_specs :
         \A i \in DOMAIN procedure_specs[id].spec_id_refs :
           LET r == procedure_specs[id].spec_id_refs[i] IN
             /\ r.id \in DOMAIN spec_functions
             /\ r.lhs # NoId => r.lhs \in DOMAIN spec_functions
  /\ \A g \in ProcGraphs :
       LocallyBuilt(g) =>
         \A i \in DOMAIN RecordOf(g).spec_id_refs : Attached(g, RecordOf(g).spec_id_refs[i])

C6_Witness ==
  /\ pc = "done"
  /\ \E g \in ProcGraphs :
       /\ LocallyBuilt(g)
       /\ \E i \in DOMAIN RecordOf(g).spec_id_refs :
            /\ RecordOf(g).spec_id_refs[i].tag = "Pledge"
            /\ RecordOf(g).spec_id_refs[i].lhs # NoId
       /\ \E i \in DOMAIN RecordOf(g).spec_id_refs :
            RecordOf(g).spec_id_refs[i].tag = "Postcondition"

\* C8 as stated: a graph has a Predicate kind only if its record has a
\* Predicate reference.
C8_PredicateOnlyByReference ==
  \A g \in ProcGraphs :
    LocallyBuilt(g) /\ g.base_spec.kind.tag = "Predicate" => HasPredicateRef(RecordOf(g))

\* C8 amended: a graph has kind Predicate(Some(_)) only if its record has a
\* Predicate reference; without such a reference the kind is a Predicate kind
\* exactly when abstract_predicate is set, and then it is Predicate(None).
C8_PredicateByReferenceOrFlag ==
  \A g \in ProcGraphs :
    LocallyBuilt(g) =>
      /\ g.base_spec.kind.tag = "Predicate" /\ g.base_spec.kind.body # NoneDef
           => HasPredicateRef(RecordOf(g))
      /\ ~HasPredicateRef(RecordOf(g)) =>
           /\ g.base_spec.kind.tag = "Predicate" <=> RecordOf(g).abstract_predicate
           /\ g.base_spec.kind.tag = "Predicate" => g.base_spec.kind.body = NoneDef

C8_Witness ==
  \E g \in ProcGraphs :
    /\ LocallyBuilt(g)
    /\ ~HasPredicateRef(RecordOf(g))
    /\ RecordOf(g).abstract_predicate
    /\ g.base_spec.kind = PredicateKind(NoneDef)

\* determine_procedure_specs inserted a graph under id
HadLocalSpec(id) ==
  /\ id \in DOMAIN procedure_specs
  /\ GhostFeatureDiag(id) \notin diagnostic
  /\ GhostTrustedDiag(id) \notin diagnostic
AfterExterns == pc \notin {"procedures", "externs", "aborted"}

C9_ExternRekeying ==
  [][pc = "externs" /\ pc' = "loops" =>
       /\ \A t \in DOMAIN extern_fn_map :
            /\ extern_fn_map[t] \in DOMAIN def_spec.proc_specs
            /\ extern_fn_map[t] \notin DOMAIN def_spec'.proc_specs
            /\ t \in DOMAIN def_spec'.proc_specs
            /\ def_spec'.proc_specs[t] = def_spec.proc_specs[extern_fn_map[t]]
       /\ \A k \in (DOMAIN def_spec.proc_specs \cup DOMAIN def_spec'.proc_specs)
                     \ (DOMAIN extern_fn_map \cup Range(extern_fn_map)) :
            /\ k \in DOMAIN def_spec.proc_specs
            /\ k \in DOMAIN def_spec'.proc_specs
            /\ def_spec'.proc_specs[k] = def_spec.proc_specs[k]]_vars

C9_Witness ==
  /\ pc = "loops"
  /\ \E t \in DOMAIN extern_fn_map :
       /\ t \in Foreign
       /\ t \in DOMAIN def_spec.proc_specs
       /\ def_spec.proc_specs[t].base_spec.source = extern_fn_map[t]
       /\ HasConstraints(def_spec.proc_specs[t])
  /\ "p2" \in DOMAIN def_spec.proc_specs

\* position i of crates is a dependency whose artifact has been imported
ImportedAt(i) ==
  /\ pc \in {"import", "done"}
  /\ i < next_crate
  /\ crates[i] # LOCAL_CRATE
  /\ is_file(crates[i])
  /\ crates[i] \notin unreadable
ImportedCrates == {crates[i] : i \in {j \in DOMAIN crates : ImportedAt(j)}}

\* C4: the artifact write_into_file produced for a map, imported by
\* import_from_file into an empty map, gives exactly the exported procedure
\* and type entries (and the exported bodies); and a run with no local
\* specification that has imported one artifact holds exactly its entries.
C4_PersistenceRoundTrip ==
  /\ \A c \in DOMAIN exported :
       exported[c].written =>
         /\ fs[c].exists
         /\ import_from_file(EmptyDefSpec, fs[c].data) =
              [EmptyDefSpec EXCEPT !.proc_specs = exported[c].proc_specs,
                                   !.type_specs = exported[c].type_specs]
         /\ DecodedFile(fs[c].data).mirs_of_specs = exported[c].bodies
  /\ \A c \in ImportedCrates :
       procedure_specs = EmptyMap /\ type_specs = EmptyMap /\ ImportedCrates = {c} =>
         /\ def_spec.proc_specs = exported[c].proc_specs
         /\ def_spec.type_specs = exported[c].type_specs

C4_Witness ==
  /\ pc = "done"
  /\ procedure_specs = EmptyMap /\ type_specs = EmptyMap
  /\ exported[LOCAL_CRATE].written
  /\ \E c \in DepCrates :
       /\ ImportedCrates = {c}
       /\ exported[c].proc_specs # EmptyMap /\ exported[c].type_specs # EmptyMap
       /\ \E k \in DOMAIN exported[c].proc_specs : HasConstraints(exported[c].proc_specs[k])
       /\ def_spec.proc_specs = exported[c].proc_specs
       /\ def_spec.type_specs = exported[c].type_specs

\* C5: for every key, the map holds the entry of the last dependency in the
\* enumeration order of crates whose imported artifact has that key.
C5_LastImportWins ==
  \A i \in DOMAIN crates :
    ImportedAt(i) =>
      /\ \A k \in DOMAIN exported[crates[i]].proc_specs :
           (~\E j \in DOMAIN crates :
               j > i /\ ImportedAt(j) /\ k \in DOMAIN exported[crates[j]].proc_specs)
           => /\ k \in DOMAIN def_spec.proc_specs
              /\ def_spec.proc_specs[k] = exported[crates[i]].proc_specs[k]
      /\ \A k \in DOMAIN exported[crates[i]].type_specs :
           (~\E j \in DOMAIN crates :
               j > i /\ ImportedAt(j) /\ k \in DOMAIN exported[crates[j]].type_specs)
           => /\ k \in DOMAIN def_spec.type_specs
              /\ def_spec.type_specs[k] = exported[crates[i]].type_specs[k]

C5_Witness ==
  /\ pc = "done"
  /\ Len(crates) = Cardinality(DepCrates)
  /\ ImportedCrates = DepCrates
  /\ \E k \in DOMAIN exported[crates[1]].proc_specs \cap DOMAIN exported[crates[2]].proc_specs :
       /\ exported[crates[1]].proc_specs[k] # exported[crates[2]].proc_specs[k]
       /\ def_spec.proc_specs[k] = exported[crates[2]].proc_specs[k]
       /\ k \in DOMAIN extern_fn_map

\* C7 as stated: every graph of the returned map with a constrained variant
\* was admitted with ghost constraints enabled in this run and is trusted.
C7_ConstrainedOnlyIfEnabledAndTrusted ==
  pc = "done" =>
    \A g \in ProcGraphs :
      HasConstraints(g) => enable_ghost_constraints /\ g.base_spec.trusted

\* C7 amended: every graph of the map with a constrained variant has a trusted
\* base specification, and if this run built it (it was not imported from a
\* dependency's artifact) ghost constraints are enabled in this run.
C7_ConstrainedLocalOnlyIfEnabled ==
  \A g \in ProcGraphs :
    HasConstraints(g) =>
      /\ g.base_spec.trusted
      /\ LocallyBuilt(g) => enable_ghost_constraints

C7_Witness ==
  /\ pc = "done"
  /\ \E g \in ProcGraphs : HasConstraints(g) /\ LocallyBuilt(g)
  /\ \E g \in ProcGraphs : HasConstraints(g) /\ ~LocallyBuilt(g)

AfterTypes == pc \in {"assertions", "assumptions", "ghosts", "mirs", "export", "import", "done"}

\* C10: once determine_type_specs has run, every type scanner record has
\* exactly one TypeSpecification under its type, with the record's invariants
\* and trusted flag, whether or not type invariants are enabled, and no other
\* local type has one.
C10_TypeRecordsKept ==
  AfterTypes =>
    /\ \A t \in DOMAIN type_specs :
         /\ t \in DOMAIN def_spec.type_specs
         /\ def_spec.type_specs[t] = [source |-> t,
                                      invariant |-> type_specs[t].invariants,
                                      trusted |-> type_specs[t].trusted]
    /\ DOMAIN def_spec.type_specs \cap LocalTypes = DOMAIN type_specs

C10_Witness ==
  /\ pc = "done"
  /\ ~enable_type_invariants
  /\ \E t \in DOMAIN type_specs :
       /\ type_specs[t].invariants # <<>>
       /\ TypeFeatureDiag(t) \in diagnostic
       /\ def_spec.type_specs[t].invariant = type_specs[t].invariants

\* the import loop is at a dependency whose artifact exists but cannot be read
AtUnreadable ==
  /\ pc = "import"
  /\ crates[next_crate] # LOCAL_CRATE
  /\ is_file(crates[next_crate])
  /\ crates[next_crate] \in unreadable
BodiesOfCrates(C) ==
  [specs |-> UNION {exported[c].bodies.specs : c \in C},
   pure_fns |-> UNION {exported[c].bodies.pure_fns : c \in C},
   predicates |-> UNION {exported[c].bodies.predicates : c \in C}]

\* C11: the loop iteration for a dependency X whose artifact cannot be read
\* emits the internal diagnostic at the synthetic position, leaves the map
\* and the body cache as they were, and moves on to the next crate; the
\* external bodies are always exactly those of the readable artifacts, and
\* every readable dependency enumerated after X has its entries in the map.
C11_ImportFailureIsolated ==
  /\ [][AtUnreadable =>
          /\ def_spec' = def_spec
          /\ body' = body
          /\ ImportDiag(crates[next_crate]) \notin diagnostic
          /\ diagnostic' = diagnostic \cup {ImportDiag(crates[next_crate])}
          /\ ImportDiag(crates[next_crate]).kind = "internal"
          /\ ImportDiag(crates[next_crate]).at[1] = "DUMMY_SP"
          /\ next_crate' = next_crate + 1
          /\ pc' = IF next_crate < Len(crates) THEN "import" ELSE "done"]_vars
  /\ [](body.external = BodiesOfCrates(ImportedCrates))
  /\ [](pc = "done" /\ build_output_dir =>
          \A i, j \in DOMAIN crates :
            /\ i < j
            /\ crates[i] \in unreadable /\ crates[i] # LOCAL_CRATE /\ is_file(crates[i])
            /\ ImportedAt(j)
            /\ \A l \in DOMAIN crates : l > j => ~ImportedAt(l)
            => /\ ImportDiag(crates[i]) \in diagnostic
               /\ \A k \in DOMAIN exported[crates[j]].proc_specs :
                    /\ k \in DOMAIN def_spec.proc_specs
                    /\ def_spec.proc_specs[k] = exported[crates[j]].proc_specs[k])

C11_Witness ==
  /\ pc = "done"
  /\ \E i, j \in DOMAIN crates :
       /\ i < j
       /\ crates[i] \in unreadable /\ is_file(crates[i])
       /\ exported[crates[i]].proc_specs # EmptyMap
       /\ exported[crates[i]].bodies.specs # {}
       /\ ImportDiag(crates[i]) \in diagnostic
       /\ ImportedAt(j)
       /\ exported[crates[j]].proc_specs # EmptyMap
       /\ \A k \in DOMAIN exported[crates[j]].proc_specs :
            def_spec.proc_specs[k] = exported[crates[j]].proc_specs[k]
       /\ \E k \in DOMAIN exported[crates[i]].proc_specs :
            def_spec.proc_specs[k] # exported[crates[i]].proc_specs[k]
       /\ \E t \in DOMAIN exported[crates[i]].type_specs :
            t \notin DOMAIN def_spec.type_specs

\* the procedure entries local resolution yields when the extern declarations
\* are visited in the given order
LocalProcSpecs(order) ==
  ExternLoop([proc_specs |-> ProcSpecsOf(DOMAIN procedure_specs), diags |-> {}, ok |-> TRUE],
             order, 1).proc_specs
LocalTypeSpecs == [t \in DOMAIN type_specs |-> TypeSpecification(t, type_specs[t])]
ImportedProcKeys == UNION {DOMAIN exported[c].proc_specs : c \in ImportedCrates}
ImportedTypeKeys == UNION {DOMAIN exported[c].type_specs : c \in ImportedCrates}

Phases == <<"procedures", "externs", "loops", "types", "assertions", "assumptions",
            "ghosts", "mirs", "export", "import", "done">>
PhaseOf(p) == CHOOSE i \in DOMAIN Phases : Phases[i] = p
Before(p, q) == PhaseOf(p) < PhaseOf(q)
LocalDefs == Procs \cup StandIns \cup Closures \cup LocalTypes \cup SpecFns \cup Range(MarkerFns)

\* C13: build_def_specs runs its steps in program order: no body is loaded
\* before the last determine_* step has finished, nothing is exported before
\* the bodies are loaded, and nothing is imported before the export was
\* attempted; so what is exported holds only graphs built by this run, under
\* keys of local resolution, and only bodies of local entities.
C13_PhaseOrdering ==
  /\ [][pc # "aborted" /\ pc' # "aborted" =>
          \/ pc' = Phases[PhaseOf(pc) + 1]
          \/ pc = "import" /\ pc' = "import" /\ next_crate' = next_crate + 1
          \/ pc = "mirs" /\ ~build_output_dir /\ pc' = "done"]_vars
  /\ [](pc # "aborted" /\ ~Before("mirs", pc) =>
          body = EmptyEnvBody)
  /\ [](pc # "aborted" /\ ~Before("export", pc) =>
          /\ ~exported[LOCAL_CRATE].written /\ ~is_file(LOCAL_CRATE)
          /\ ExportDiag \notin diagnostic
          /\ next_crate = 1
          /\ body.external = EmptyBodies)
  /\ [](pc = "export" =>
          body.local = [defid_for_export(def_spec) EXCEPT !.pure_fns = @ \cap has_body])
  /\ [](pc \in {"import", "done"} /\ build_output_dir =>
          exported[LOCAL_CRATE].written \/ ExportDiag \in diagnostic)
  /\ [](exported[LOCAL_CRATE].written =>
          /\ \A k \in DOMAIN exported[LOCAL_CRATE].proc_specs :
               /\ LocallyBuilt(exported[LOCAL_CRATE].proc_specs[k])
               /\ k \in DOMAIN procedure_specs \cup DOMAIN extern_fn_map
          /\ DOMAIN exported[LOCAL_CRATE].type_specs = DOMAIN type_specs
          /\ \A grp \in DOMAIN exported[LOCAL_CRATE].bodies :
               exported[LOCAL_CRATE].bodies[grp] \subseteq LocalDefs
          /\ DecodedFile(fs[LOCAL_CRATE].data) =
               [proc_specs |-> exported[LOCAL_CRATE].proc_specs,
                type_specs |-> exported[LOCAL_CRATE].type_specs,
                mirs_of_specs |-> exported[LOCAL_CRATE].bodies])

C13_Witness ==
  /\ pc = "done"
  /\ exported[LOCAL_CRATE].written
  /\ exported[LOCAL_CRATE].proc_specs # EmptyMap
  /\ exported[LOCAL_CRATE].bodies.specs # {}
  /\ \E k \in ImportedProcKeys :
       /\ k \in DOMAIN def_spec.proc_specs
       /\ k \notin DOMAIN exported[LOCAL_CRATE].proc_specs
  /\ body.external.specs # {}
  /\ ~(body.external.specs \subseteq exported[LOCAL_CRATE].bodies.specs)

\* the export set of the map that was exported
ExportSet ==
  defid_for_export([proc_specs |-> exported[LOCAL_CRATE].proc_specs,
                    type_specs |-> exported[LOCAL_CRATE].type_specs])

\* C14: when the export is written, every entity of the specification-body
\* and predicate-body groups of the export set has been loaded, an entity of
\* the pure-function group has been loaded exactly if it has a body, nothing
\* else has been loaded, and the load calls were made in the order
\* specification bodies, pure-function bodies, predicate bodies.
C14_MaterializedBeforeExport ==
  exported[LOCAL_CRATE].written =>
    /\ body.local.specs = ExportSet.specs
    /\ body.local.predicates = ExportSet.predicates
    /\ body.local.pure_fns \subseteq ExportSet.pure_fns
    /\ \A d \in ExportSet.pure_fns : d \in body.local.pure_fns <=> d \in has_body
    /\ exported[LOCAL_CRATE].bodies = body.local
    /\ body.loads = <<[loader |-> "load_spec_body", defs |-> ExportSet.specs],
                      [loader |-> "load_pure_fn_body", defs |-> ExportSet.pure_fns \cap has_body],
                      [loader |-> "load_predicate_body", defs |-> ExportSet.predicates]>>

C14_Witness ==
  /\ exported[LOCAL_CRATE].written
  /\ ExportSet.specs # {}
  /\ ExportSet.predicates # {}
  /\ ExportSet.pure_fns \cap has_body # {}
  /\ ExportSet.pure_fns \ has_body # {}
  /\ body.local.pure_fns # {}

\* every spec-id text among the tags of a node
AllTags(node) ==
  node.attrs.spec_id \o node.attrs.pre \o node.attrs.post \o node.attrs.pledge
    \o node.attrs.assert_lhs \o node.attrs.assert_rhs \o node.attrs.pred
RefTags(attrs) ==
  attrs.pre \o attrs.post \o attrs.pledge
    \o (IF attrs.assert_lhs # <<>> /\ attrs.assert_rhs # <<>>
          THEN attrs.assert_lhs \o attrs.assert_rhs \o attrs.pred
        ELSE IF attrs.assert_lhs = <<>> /\ attrs.assert_rhs = <<>> THEN attrs.pred
        ELSE <<>>)
\* the texts the visitor hands to parse_spec_id at a node: the spec_id tag of
\* a function that has one, else the reference tags; nothing at a local
\* statement that is not marked as a closure
ParsedTags(node) ==
  CASE node.kind = "fn" ->
         IF node.attrs.spec_id # <<>> THEN node.attrs.spec_id ELSE RefTags(node.attrs)
    [] node.kind = "trait_item" -> RefTags(node.attrs)
    [] node.kind = "stmt" ->
         IF node.local /\ has_prusti_attr(node.attrs, "closure") /\ node.init # NoneDef
           THEN RefTags(node.attrs) ELSE <<>>
HasMalformed(tags) == \E i \in DOMAIN tags : ~WellFormed(tags[i])
EntityOf(node) == IF node.kind = "stmt" THEN node.init ELSE node.id
ParseMsg == ParsePanic(NoneDef).msg

\* C15 as stated: a node with any malformed spec_id or *_spec_id_ref tag makes
\* the visit abort with the panic naming the entity.
C15_AnyMalformedTagAborts ==
  [][pc = "scanning" /\ hir # <<>> /\ HasMalformed(AllTags(Head(hir))) =>
       pc' = "aborted" /\ panic' = ParsePanic(EntityOf(Head(hir)))]_vars

\* C15 amended: a malformed text among the tags the visitor parses at a node
\* ends the process with the panic naming the entity: the scanner records are
\* as before, nothing happens afterwards and no map is ever built; a node
\* whose parsed tags are all well-formed never raises that panic, whatever
\* its other tags are.
C15_ParsedMalformedTagAborts ==
  /\ [][pc = "scanning" /\ hir # <<>> =>
          IF HasMalformed(ParsedTags(Head(hir)))
            THEN /\ pc' = "aborted"
                 /\ panic' = ParsePanic(EntityOf(Head(hir)))
                 /\ UNCHANGED <<scanned, def_spec>>
            ELSE panic'.msg # ParseMsg]_vars
  /\ [][pc = "aborted" => UNCHANGED vars]_vars
  /\ [](panic.msg = ParseMsg =>
          /\ pc = "aborted"
          /\ panic.def \in LocalDefs
          /\ panic.def \notin DOMAIN procedure_specs
          /\ panic.def \notin Range([i \in DOMAIN spec_functions |-> spec_functions[i]])
          /\ def_spec = EmptyDefSpec)

C15_Witness ==
  /\ pc = "aborted"
  /\ panic = ParsePanic("p1")
  /\ LastSpecId \in DOMAIN spec_functions
  /\ Len(hir) > 0
  /\ procedure_specs = EmptyMap

\* ---- C16 ----
\* the placeholders that occur in a string
PlaceholdersOf(text) ==
  {SubSeq(text, find_iter(text, 1)[k].start, find_iter(text, 1)[k].stop - 1) :
     k \in DOMAIN find_iter(text, 1)}
\* text from position i on, read left to right, with every occurrence of a
\* placeholder of the map replaced by the map's text and all else unchanged
RECURSIVE Rewritten(_, _, _)
Rewritten(text, i, map) ==
  IF i > Len(text) THEN <<>>
  ELSE IF \E t \in DOMAIN map : StartsWith(text, i, t)
    THEN map[CHOOSE t \in DOMAIN map : StartsWith(text, i, t)]
           \o Rewritten(text, i + Len(CHOOSE t \in DOMAIN map : StartsWith(text, i, t)), map)
    ELSE <<text[i]>> \o Rewritten(text, i + 1, map)
\* to is from with every placeholder replaced by some text
IsInstanceOf(from, to) ==
  \E sigma \in [PlaceholdersOf(from) -> Instantiations] : Rewritten(from, 1, sigma) = to
SubstsInScope ==
  /\ pc = "typaram"
  /\ IsInstanceOf(substs.outer1, substs.outer2)
  /\ PlaceholdersOf(substs.inner1) \subseteq PlaceholdersOf(substs.outer1)

\* C16: when outer2 is outer1 with every placeholder replaced by some text and
\* every placeholder of inner1 occurs in outer1, Substs::learn(outer1, outer2)
\* returns a Substs, and apply(inner1) returns inner1 with every placeholder
\* replaced by the text learned for it and all other text unchanged; when
\* inner1 is outer1 the result is outer2.
C16_LearnApplySubstitutes ==
  SubstsInScope =>
    /\ substs.stage # "panicked"
    /\ substs.stage = "applied" =>
         /\ substs.newstr = Rewritten(substs.inner1, 1, substs.repls)
         /\ substs.inner1 = substs.outer1 => substs.newstr = substs.outer2

\* learn has been called with a generic string that names one placeholder
\* twice and with the instance of it in which the placeholder stands for "a"
C16_Witness ==
  /\ substs.outer1 = Placeholder(<<"A">>) \o <<"a">> \o Placeholder(<<"A">>)
  /\ substs.outer2 = <<"a", "a", "a">>
  /\ substs.inner1 = substs.outer1
  /\ Rewritten(substs.outer1, 1, [t \in {Placeholder(<<"A">>)} |-> <<"a">>]) = substs.outer2
  /\ substs.stage # "args"

\* ---- C17 ----
\* the kind the flags of a record stand for
FlagKind(refs) ==
  CASE refs.abstract_predicate -> PredicateKind(NoneDef)
    [] ~refs.abstract_predicate /\ refs.pure -> Pure
    [] ~refs.abstract_predicate /\ ~refs.pure -> Impure

\* C17: a graph built from a record without a Predicate reference has, in its
\* base contract and in every constrained variant, kind Predicate(None) when
\* abstract_predicate is set (whatever pure is), Pure when pure is set and
\* abstract_predicate is not, and Impure when neither flag is set.
C17_DefaultKind ==
  \A g \in ProcGraphs :
    LocallyBuilt(g) /\ ~HasPredicateRef(RecordOf(g)) =>
      /\ g.base_spec.kind = FlagKind(RecordOf(g))
      /\ \A c \in DOMAIN g.specs_with_constraints :
           g.specs_with_constraints[c].kind = FlagKind(RecordOf(g))

\* graphs of all three default kinds have been built, the Predicate(None) one
\* from a record that is also flagged pure
C17_Witness ==
  /\ \E g \in ProcGraphs :
       /\ LocallyBuilt(g) /\ ~HasPredicateRef(RecordOf(g))
       /\ RecordOf(g).abstract_predicate /\ RecordOf(g).pure
       /\ g.base_spec.kind = PredicateKind(NoneDef)
  /\ \E g \in ProcGraphs :
       /\ LocallyBuilt(g) /\ ~HasPredicateRef(RecordOf(g))
       /\ ~RecordOf(g).abstract_predicate /\ RecordOf(g).pure
       /\ g.base_spec.kind = Pure
  /\ \E g \in ProcGraphs :
       /\ LocallyBuilt(g) /\ ~HasPredicateRef(RecordOf(g))
       /\ ~RecordOf(g).abstract_predicate /\ ~RecordOf(g).pure
       /\ g.base_spec.kind = Impure

\* ---- C18 ----
\* the graph of the record of id has a constrained variant although ghost
\* constraints are disabled or the procedure is not trusted
GatingViolation(id) ==
  /\ ScansConstrained(procedure_specs[id])
  /\ ~enable_ghost_constraints \/ ~procedure_specs[id].trusted
DiagnosticsAt(id) == {d \in diagnostic : d.at = id}

\* C18: right after determine_procedure_specs, a procedure A with a gating
\* violation has exactly one diagnostic (the feature-flag one when ghost
\* constraints are disabled, otherwise the trusted-only one) and no entry in
\* the procedure map; every other procedure B without a violation of its own
\* has the entry built from its own record alone, and no diagnostic.
C18_FailOpenGating ==
  pc = "externs" =>
    \A A \in DOMAIN procedure_specs :
      GatingViolation(A) =>
        /\ DiagnosticsAt(A) = {IF enable_ghost_constraints THEN GhostTrustedDiag(A)
                               ELSE GhostFeatureDiag(A)}
        /\ A \notin DOMAIN def_spec.proc_specs
        /\ \A B \in DOMAIN procedure_specs \ {A} :
             ~GatingViolation(B) =>
               /\ B \in DOMAIN def_spec.proc_specs
               /\ def_spec.proc_specs[B] = BuildSpecGraph(B, procedure_specs[B])
               /\ DiagnosticsAt(B) = {}

\* one procedure was dropped for a violation (with ghost constraints enabled:
\* it is not trusted) and a trusted one with a constrained variant was
\* resolved in the same pass
C18_Witness ==
  /\ pc = "externs"
  /\ enable_ghost_constraints
  /\ \E A, B \in DOMAIN procedure_specs :
       /\ A # B
       /\ GatingViolation(A) /\ ~GatingViolation(B)
       /\ GhostTrustedDiag(A) \in diagnostic
       /\ A \notin DOMAIN def_spec.proc_specs
       /\ B \in DOMAIN def_spec.proc_specs
       /\ HasConstraints(def_spec.proc_specs[B])

\* ---- C19 ----
\* the next iteration of the import loop is for the current crate or for a
\* dependency without an artifact file
AtSkippedCrate ==
  /\ pc = "import" /\ next_crate <= Len(crates)
  /\ crates[next_crate] = LOCAL_CRATE \/ ~fs[crates[next_crate]].exists

\* C19: the iteration of import_specs_from_dependencies for the current crate,
\* whether or not its artifact exists, and the iteration for a dependency
\* whose artifact path is not an existing file change neither the map nor the
\* body cache and emit no diagnostic.
C19_ImportSelection ==
  [][AtSkippedCrate => /\ def_spec' = def_spec
                       /\ body' = body
                       /\ diagnostic' = diagnostic]_vars

\* the loop has passed the current crate, whose artifact this run wrote with
\* a non-empty procedure section, and a dependency without an artifact
C19_Witness ==
  /\ pc = "done"
  /\ crates = <<LOCAL_CRATE, "depA">>
  /\ fs[LOCAL_CRATE].exists /\ exported[LOCAL_CRATE].proc_specs # EmptyMap
  /\ ~fs["depA"].exists
  /\ body.external = EmptyBodies

\* ---- C20 ----
\* the crate of the next iteration of the import loop, and what it exported
NextImported == exported[crates[next_crate]]

\* C20: an iteration of the import loop only inserts procedure and type
\* entries: every key stays, a new key is a key of the imported artifact, an
\* entry whose key the artifact does not carry is unchanged, and the
\* loop-invariant, assertion, assumption, ghost-begin and ghost-end mappings
\* are unchanged; the artifact itself is not modified.
C20_ImportFrame ==
  [][pc = "import" /\ next_crate <= Len(crates) =>
       /\ DOMAIN def_spec.proc_specs \subseteq DOMAIN def_spec'.proc_specs
       /\ DOMAIN def_spec.type_specs \subseteq DOMAIN def_spec'.type_specs
       /\ DOMAIN def_spec'.proc_specs \ DOMAIN def_spec.proc_specs
            \subseteq DOMAIN NextImported.proc_specs
       /\ DOMAIN def_spec'.type_specs \ DOMAIN def_spec.type_specs
            \subseteq DOMAIN NextImported.type_specs
       /\ \A k \in DOMAIN def_spec.proc_specs \ DOMAIN NextImported.proc_specs :
            def_spec'.proc_specs[k] = def_spec.proc_specs[k]
       /\ \A k \in DOMAIN def_spec.type_specs \ DOMAIN NextImported.type_specs :
            def_spec'.type_specs[k] = def_spec.type_specs[k]
       /\ def_spec'.loop_specs = def_spec.loop_specs
       /\ def_spec'.prusti_assertions = def_spec.prusti_assertions
       /\ def_spec'.prusti_assumptions = def_spec.prusti_assumptions
       /\ def_spec'.ghost_begin = def_spec.ghost_begin
       /\ def_spec'.ghost_end = def_spec.ghost_end
       /\ fs' = fs /\ exported' = exported]_vars

\* an artifact with a procedure and a type entry has been imported into a map
\* that holds local procedure and type entries under other keys and local
\* loop, assertion, assumption and ghost mappings
C20_Witness ==
  /\ \E i \in DOMAIN crates :
       /\ ImportedAt(i)
       /\ DOMAIN exported[crates[i]].proc_specs # {}
       /\ DOMAIN exported[crates[i]].type_specs # {}
       /\ DOMAIN exported[crates[i]].proc_specs \subseteq DOMAIN def_spec.proc_specs
       /\ DOMAIN exported[crates[i]].type_specs \subseteq DOMAIN def_spec.type_specs
  /\ DOMAIN def_spec.proc_specs \ ImportedProcKeys # {}
  /\ DOMAIN def_spec.type_specs \ ImportedTypeKeys # {}
  /\ def_spec.loop_specs # EmptyMap
  /\ def_spec.prusti_assertions # EmptyMap
  /\ def_spec.prusti_assumptions # EmptyMap
  /\ def_spec.ghost_begin # EmptyMap /\ def_spec.ghost_end # EmptyMap

\* ---- C21 ----
Returned == pc = "done" /\ panic = NoPanic

\* C21 as stated: in the map build_def_specs returns, every target of an
\* extern declaration that has a graph of its own, built locally or imported
\* from a dependency's artifact, has been reported as a conflict.
C21_EveryConflictReported ==
  Returned =>
    \A t \in DOMAIN extern_fn_map :
      HadLocalSpec(t) \/ t \in ImportedProcKeys =>
        ConflictDiag(t, extern_fn_map[t]) \in diagnostic

\* C21 amended: a conflict is reported exactly for the targets that had a
\* locally built graph when determine_extern_specs ran; a graph imported for a
\* target replaces the stand-in's graph without any conflict diagnostic.
C21_LocalConflictsReported ==
  Returned =>
    \A t \in DOMAIN extern_fn_map :
      /\ HadLocalSpec(t) => ConflictDiag(t, extern_fn_map[t]) \in diagnostic
      /\ ~HadLocalSpec(t) => ConflictDiag(t, extern_fn_map[t]) \notin diagnostic
      /\ t \in ImportedProcKeys =>
           /\ t \in DOMAIN def_spec.proc_specs
           /\ def_spec.proc_specs[t].base_spec.source # extern_fn_map[t]
           /\ \E c \in ImportedCrates : t \in DOMAIN exported[c].proc_specs
                                        /\ def_spec.proc_specs[t] = exported[c].proc_specs[t]

\* a dependency's graph for the target of an extern declaration has replaced
\* the stand-in's graph and no conflict was reported
C21_Witness ==
  /\ Returned
  /\ \E t \in DOMAIN extern_fn_map :
       /\ t \in ImportedProcKeys
       /\ extern_fn_map[t] \in DOMAIN procedure_specs
       /\ def_spec.proc_specs[t].base_spec.source = t
       /\ ConflictDiag(t, extern_fn_map[t]) \notin diagnostic

\* ---- C22 ----
\* the visitor calls get_procedure_spec_ids at the node
GetsProcedureSpec(node) ==
  CASE node.kind = "fn" -> node.attrs.spec_id = <<>>
    [] node.kind = "trait_item" -> TRUE
    [] node.kind = "stmt" ->
         node.local /\ has_prusti_attr(node.attrs, "closure") /\ node.init # NoneDef
\* the Pledge references of a record that carry a left-hand side
AssertPledgeRefs(refs) ==
  {i \in DOMAIN refs.spec_id_refs :
     refs.spec_id_refs[i].tag = "Pledge" /\ refs.spec_id_refs[i].lhs # NoId}
TagIds == 0 .. 10 + Len(MarkerFns)

\* C22: at a node for which get_procedure_spec_ids is called, with both
\* assert-pledge tags the record gets exactly one Pledge with a left-hand
\* side, lhs the left id and rhs the right id; with neither tag the record
\* gets none; with exactly one the visit aborts and no record is made, the
\* panic being unreachable!() unless an earlier reference tag is malformed.
C22_AssertPledgePairing ==
  [][pc = "scanning" /\ hir # <<>> /\ GetsProcedureSpec(Head(hir)) =>
       CASE Head(hir).attrs.assert_lhs = <<>> /\ Head(hir).attrs.assert_rhs = <<>> ->
              EntityOf(Head(hir)) \in DOMAIN procedure_specs' =>
                AssertPledgeRefs(procedure_specs'[EntityOf(Head(hir))]) = {}
         [] Head(hir).attrs.assert_lhs # <<>> /\ Head(hir).attrs.assert_rhs # <<>> ->
              pc' = "scanning" =>
                /\ EntityOf(Head(hir)) \in DOMAIN procedure_specs'
                /\ Cardinality(AssertPledgeRefs(procedure_specs'[EntityOf(Head(hir))])) = 1
                /\ \A l, r \in TagIds :
                     /\ Head(hir).attrs.assert_lhs[1] = Numeral(l)
                     /\ Head(hir).attrs.assert_rhs[1] = Numeral(r)
                     => \A i \in AssertPledgeRefs(procedure_specs'[EntityOf(Head(hir))]) :
                          procedure_specs'[EntityOf(Head(hir))].spec_id_refs[i] = Pledge(l, r)
         [] OTHER ->
              /\ pc' = "aborted"
              /\ procedure_specs' = procedure_specs
              /\ ~HasMalformed(Head(hir).attrs.pre \o Head(hir).attrs.post
                                 \o Head(hir).attrs.pledge)
                   => panic' = UnreachablePanic]_vars

\* a record with the paired pledge has been made next to a plain pledge
C22_Witness ==
  /\ pc = "scanning"
  /\ "p1" \in DOMAIN procedure_specs
  /\ \E i \in AssertPledgeRefs(procedure_specs["p1"]) :
       procedure_specs["p1"].spec_id_refs[i] = Pledge(1, LastSpecId)
  /\ Pledge(NoId, LastSpecId) \in Range(procedure_specs["p1"].spec_id_refs)

\* ---- C23 ----
\* C23: the trusted flag of the base contract of every graph built from a
\* scanner record is the trusted flag of that record, whatever the pure and
\* abstract_predicate flags and the references of the record are.
C23_TrustedVerbatim ==
  \A g \in ProcGraphs :
    LocallyBuilt(g) => g.base_spec.trusted = RecordOf(g).trusted

\* a trusted graph of a record that is not pure, and an untrusted graph of a
\* pure record that has references
C23_Witness ==
  /\ \E g \in ProcGraphs :
       /\ LocallyBuilt(g)
       /\ RecordOf(g).trusted /\ ~RecordOf(g).pure
       /\ g.base_spec.trusted
  /\ \E g \in ProcGraphs :
       /\ LocallyBuilt(g)
       /\ ~RecordOf(g).trusted /\ RecordOf(g).pure
       /\ RecordOf(g).spec_id_refs # <<>>
       /\ ~g.base_spec.trusted

\* ---- C24 ----
AfterLocalResolution == pc \in {"mirs", "export", "import", "done"}
\* mapping has exactly one entry per recorded entity, keyed by the entity and
\* holding the entity in its single field
CopiedThrough(recorded, mapping, field) ==
  /\ DOMAIN mapping = Range(recorded)
  /\ \A id \in Range(recorded) : mapping[id] = [f \in {field} |-> id]

\* C24: once the determine_* pass is over, the loop, assertion, assumption,
\* ghost-begin and ghost-end mappings hold, for every entity the scanner
\* recorded, an entry keyed by the entity whose single field is the entity,
\* and nothing else, whatever the feature flags are.
C24_PassThroughRecords ==
  AfterLocalResolution =>
    /\ CopiedThrough(loop_specs, def_spec.loop_specs, "invariant")
    /\ CopiedThrough(prusti_assertions, def_spec.prusti_assertions, "assertion")
    /\ CopiedThrough(prusti_assumptions, def_spec.prusti_assumptions, "assumption")
    /\ CopiedThrough(ghost_begin, def_spec.ghost_begin, "marker")
    /\ CopiedThrough(ghost_end, def_spec.ghost_end, "marker")

\* the five mappings have been filled with both feature flags disabled and a
\* type record with an invariant present
C24_Witness ==
  /\ AfterLocalResolution
  /\ ~enable_ghost_constraints /\ ~enable_type_invariants
  /\ \E t \in DOMAIN type_specs : type_specs[t].invariants # <<>>
  /\ def_spec.loop_specs # EmptyMap /\ def_spec.prusti_assertions # EmptyMap
  /\ def_spec.prusti_assumptions # EmptyMap
  /\ def_spec.ghost_begin # EmptyMap /\ def_spec.ghost_end # EmptyMap

\* ---- C25 ----
\* the node the visitor is at is a function that carries a spec_id tag
AtSpecItem == Head(hir).kind = "fn" /\ Head(hir).attrs.spec_id # <<>>

\* C25: a visit of a function with a spec_id tag changes neither the
\* procedure records nor the extern declarations, whatever other tags the
\* function carries, and when it returns the function is in the
\* SpecificationId table under the id of its tag; a visit of any other node
\* changes neither that table nor the loop, type, assertion, assumption and
\* ghost records.
C25_ScannerExclusivity ==
  [][pc = "scanning" /\ hir # <<>> =>
       IF AtSpecItem
         THEN /\ UNCHANGED <<procedure_specs, extern_fn_map>>
              /\ pc' = "scanning" =>
                   \E i \in DOMAIN spec_functions' :
                      /\ Numeral(i) = Head(hir).attrs.spec_id[1]
                      /\ spec_functions'[i] = Head(hir).id
         ELSE UNCHANGED <<spec_functions, loop_specs, type_specs, prusti_assertions,
                          prusti_assumptions, ghost_begin, ghost_end>>]_vars

\* the spec function of the first id, tagged trusted and extern_spec, was
\* registered without a procedure record or an extern declaration, and the
\* marker functions filled the side records
C25_Witness ==
  /\ pc = "scanning"
  /\ 1 \in DOMAIN spec_functions /\ spec_functions[1] = SpecFnOf(1)
  /\ SpecFnOf(1) \notin DOMAIN procedure_specs
  /\ extern_fn_map = EmptyMap
  /\ loop_specs # <<>> /\ type_specs # EmptyMap /\ ghost_end # <<>>
  /\ "p1" \in DOMAIN procedure_specs

\* ---- C26 ----
TypeFeatureDiags == {d \in diagnostic : d.msg = TypeFeatureDiag(NoneDef).msg}

\* C26: before determine_type_specs has run there is no type-invariant
\* diagnostic; afterwards there is exactly one for every type whose scanner
\* record has a non-empty invariant set while type invariants are disabled,
\* and none for any other type, in particular none for a record that only
\* carries the trusted flag.
C26_TypeGatingDiagnostic ==
  IF AfterTypes
    THEN TypeFeatureDiags =
           {TypeFeatureDiag(t) : t \in {u \in DOMAIN type_specs :
                                          /\ type_specs[u].invariants # <<>>
                                          /\ ~enable_type_invariants}}
    ELSE TypeFeatureDiags = {}

\* type invariants are disabled, the record of a type with an invariant was
\* reported and its entry was made all the same
C26_Witness ==
  /\ AfterTypes /\ ~enable_type_invariants
  /\ \E t \in DOMAIN type_specs :
       /\ type_specs[t].invariants # <<>>
       /\ TypeFeatureDiag(t) \in diagnostic
       /\ t \in DOMAIN def_spec.type_specs

\* ---- C27 ----
\* C27: when determine_extern_specs is about to run, the procedure map has an
\* entry under the stand-in of every extern declaration, so that
\* remove(spec_id).unwrap() succeeds.
C27_StandInAlwaysPresent ==
  pc = "externs" =>
    \A t \in DOMAIN extern_fn_map : extern_fn_map[t] \in DOMAIN def_spec.proc_specs

\* determine_extern_specs has panicked on the unwrap for a stand-in whose
\* graph the ghost-constraint gate had dropped
C27_Witness ==
  /\ pc = "aborted" /\ panic = UnwrapPanic
  /\ \A id \in DOMAIN procedure_specs : AllRefsResolve(procedure_specs[id])
  /\ \E t \in DOMAIN extern_fn_map :
       /\ extern_fn_map[t] \in DOMAIN procedure_specs
       /\ procedure_specs[extern_fn_map[t]].trusted
       /\ GhostFeatureDiag(extern_fn_map[t]) \in diagnostic
       /\ extern_fn_map[t] \notin DOMAIN def_spec.proc_specs

\* ---- C28 ----
\* C28: without a build output directory no artifact is ever written and no
\* dependency artifact is read: the export and import steps are never
\* reached, the local artifact does not exist, no imported body and no export
\* or import diagnostic appears; the map returned holds exactly the locally
\* determined entries (after extern re-keying), and the three body loaders
\* have been called for the entities of that map.
C28_NoOutputDirIsLocalOnly ==
  ~build_output_dir =>
    /\ pc \notin {"export", "import"}
    /\ ~fs[LOCAL_CRATE].exists /\ ~exported[LOCAL_CRATE].written
    /\ body.external = EmptyBodies
    /\ \A d \in diagnostic : d.kind # "internal"
    /\ pc = "done" =>
         /\ next_crate = 1
         /\ \E order \in IterationOrders(DOMAIN extern_fn_map) :
              def_spec.proc_specs = LocalProcSpecs(order)
         /\ def_spec.type_specs = LocalTypeSpecs
         /\ Len(body.loads) = 3
         /\ body.local.specs = defid_for_export(def_spec).specs
         /\ body.local.predicates = defid_for_export(def_spec).predicates
         /\ body.local.pure_fns = defid_for_export(def_spec).pure_fns \cap has_body

\* build_def_specs has returned without an output directory although a
\* dependency artifact with a procedure entry exists; local entries and
\* bodies are there
C28_Witness ==
  /\ pc = "done" /\ ~build_output_dir
  /\ \E i \in DOMAIN crates :
       /\ crates[i] # LOCAL_CRATE /\ is_file(crates[i]) /\ crates[i] \notin unreadable
       /\ \E k \in DOMAIN exported[crates[i]].proc_specs : k \notin DOMAIN def_spec.proc_specs
  /\ def_spec.proc_specs # EmptyMap
  /\ def_spec.type_specs # EmptyMap
  /\ body.local.specs # {}

====
